---- MODULE Spec2Model ----
(***************************************************************************)
(* RBAC core of bi.dencaps.com: permission catalog, role and membership    *)
(* stores (MongoDB collections), the permission resolver and its Redis     *)
(* read-through cache.  Every request is a process; one step of a process  *)
(* is one awaited store or cache call of services/rbac.rs.                 *)
(***************************************************************************)
EXTENDS Integers, Sequences, FiniteSets, TLC

VARIABLES
    users,        \* users collection: user_id -> [role, tenant_id]
    projects,     \* projects collection: project_id -> [owner_id, tenant_id]
    roles,        \* roles collection: set of Role documents
    memberships,  \* project_memberships collection: set of documents
    permCache,    \* redis keys permissions:{user}:{scope} -> ResolvedPermissions
    roleCache,    \* redis keys role:{role_id} -> Role
    dbUp,         \* FALSE while the document store refuses every call
    nextId,       \* source of fresh uuids / document ids
    ops,          \* number of requests that may still be started
    seeded,       \* tenant -> outcome of its first completed seeding call
    proc,         \* request slot -> the request's position and locals
    cacheUp,      \* FALSE while every redis call returns an error
    now,          \* wall clock, in seconds
    expires,      \* redis key -> the instant its SETEX lifetime ends
    lastWrite     \* instant of the last change committed to the store

vars == <<users, projects, roles, memberships, permCache, roleCache, dbUp,
          nextId, ops, seeded, proc, cacheUp, now, expires, lastWrite>>

store == <<users, projects, roles, memberships, lastWrite>>
cache == <<permCache, roleCache, expires>>
documents == <<users, projects, roles, memberships>>

(***************************************************************************)
(* Bounds                                                                  *)
(***************************************************************************)
PERMISSION_CACHE_TTL == 300     \* seconds
ROLE_CACHE_TTL == 600           \* seconds

NumProcs == 2       \* requests in flight at once
MaxOps == 3         \* requests per behaviour of the interleaving specifications
FewOps == 2         \* requests per behaviour of the other specifications
MaxTicks == 3       \* clock advances per behaviour of the timed specification
MaxLen == 2         \* length of the permission lists given to has_any / has_all
MaxMutations == 1   \* mutations per behaviour when resolutions arrive without end

Procs == 1..NumProcs

(***************************************************************************)
(* Permission catalog (models/mod.rs)                                      *)
(***************************************************************************)
Permission ==
    {"ProjectCreate", "ProjectRead", "ProjectUpdate", "ProjectDelete",
     "ProjectManageMembers", "UserCreate", "UserRead", "UserUpdate",
     "UserDelete", "UserManageRoles", "ChatRead", "ChatWrite", "ChatDelete",
     "ChatExport", "ReportCreate", "ReportRead", "ReportExport",
     "ReportDelete", "AdminAccess", "SystemSettings"}

as_str(p) ==
    CASE p = "ProjectCreate" -> "project:create"
      [] p = "ProjectRead" -> "project:read"
      [] p = "ProjectUpdate" -> "project:update"
      [] p = "ProjectDelete" -> "project:delete"
      [] p = "ProjectManageMembers" -> "project:manage_members"
      [] p = "UserCreate" -> "user:create"
      [] p = "UserRead" -> "user:read"
      [] p = "UserUpdate" -> "user:update"
      [] p = "UserDelete" -> "user:delete"
      [] p = "UserManageRoles" -> "user:manage_roles"
      [] p = "ChatRead" -> "chat:read"
      [] p = "ChatWrite" -> "chat:write"
      [] p = "ChatDelete" -> "chat:delete"
      [] p = "ChatExport" -> "chat:export"
      [] p = "ReportCreate" -> "report:create"
      [] p = "ReportRead" -> "report:read"
      [] p = "ReportExport" -> "report:export"
      [] p = "ReportDelete" -> "report:delete"
      [] p = "AdminAccess" -> "admin:access"
      [] p = "SystemSettings" -> "system:settings"

\* Option<Permission> as a set: {} is None, {p} is Some(p).
from_str(s) ==
    CASE s = "project:create" -> {"ProjectCreate"}
      [] s = "project:read" -> {"ProjectRead"}
      [] s = "project:update" -> {"ProjectUpdate"}
      [] s = "project:delete" -> {"ProjectDelete"}
      [] s = "project:manage_members" -> {"ProjectManageMembers"}
      [] s = "user:create" -> {"UserCreate"}
      [] s = "user:read" -> {"UserRead"}
      [] s = "user:update" -> {"UserUpdate"}
      [] s = "user:delete" -> {"UserDelete"}
      [] s = "user:manage_roles" -> {"UserManageRoles"}
      [] s = "chat:read" -> {"ChatRead"}
      [] s = "chat:write" -> {"ChatWrite"}
      [] s = "chat:delete" -> {"ChatDelete"}
      [] s = "chat:export" -> {"ChatExport"}
      [] s = "report:create" -> {"ReportCreate"}
      [] s = "report:read" -> {"ReportRead"}
      [] s = "report:export" -> {"ReportExport"}
      [] s = "report:delete" -> {"ReportDelete"}
      [] s = "admin:access" -> {"AdminAccess"}
      [] s = "system:settings" -> {"SystemSettings"}
      [] OTHER -> {}

\* Permission::all(): the ordered listing of the catalog.
all ==
    <<"ProjectCreate", "ProjectRead", "ProjectUpdate", "ProjectDelete",
      "ProjectManageMembers", "UserCreate", "UserRead", "UserUpdate",
      "UserDelete", "UserManageRoles", "ChatRead", "ChatWrite", "ChatDelete",
      "ChatExport", "ReportCreate", "ReportRead", "ReportExport",
      "ReportDelete", "AdminAccess", "SystemSettings">>

\* vec.iter().map(|p| p.as_str().to_string()): the strings of a Vec<Permission>.
StrVec(v) == [i \in DOMAIN v |-> as_str(v[i])]

\* .collect::<HashSet<String>>() of a sequence of strings.
ToSet(v) == {v[i] : i \in DOMAIN v}

AllPermissionStrings == ToSet(StrVec(all))

get_owner_permissions ==
    ToSet(StrVec(<<"ProjectRead", "ProjectUpdate", "ProjectManageMembers",
                   "UserRead", "ChatRead", "ChatWrite", "ChatDelete",
                   "ChatExport", "ReportCreate", "ReportRead", "ReportExport",
                   "ReportDelete">>))

get_member_permissions ==
    ToSet(StrVec(<<"ProjectRead", "ChatRead", "ChatWrite", "ReportCreate",
                   "ReportRead">>))

get_viewer_permissions ==
    ToSet(StrVec(<<"ProjectRead", "ChatRead", "ReportRead">>))

\* UserRole, by its stored (snake_case) string.
UserRole == {"admin", "project_owner", "project_member", "viewer"}

\* Mutant: the project_owner flag selects the whole catalog.
get_global_permissions_OwnerAll(role) ==
    CASE role = "admin" -> AllPermissionStrings
      [] role = "project_owner" -> AllPermissionStrings
      [] role = "project_member" -> get_member_permissions
      [] role = "viewer" -> get_viewer_permissions

get_global_permissions(role) ==
    CASE role = "admin" -> AllPermissionStrings
      [] role = "project_owner" -> get_owner_permissions
      [] role = "project_member" -> get_member_permissions
      [] role = "viewer" -> get_viewer_permissions

(***************************************************************************)
(* ResolvedPermissions predicates (models/mod.rs)                          *)
(***************************************************************************)
has_permission(r, permission) ==
    r.is_admin \/ as_str(permission) \in r.permissions

has_any_permission(r, ps) ==
    r.is_admin \/ \E i \in DOMAIN ps : as_str(ps[i]) \in r.permissions

\* Mutant: has_all_permissions without the is_admin shortcut.
has_all_permissions_NoAdmin(r, ps) ==
    \A i \in DOMAIN ps : as_str(ps[i]) \in r.permissions

has_all_permissions(r, ps) ==
    r.is_admin \/ \A i \in DOMAIN ps : as_str(ps[i]) \in r.permissions

(***************************************************************************)
(* Cache keys and the two Redis entry families                             *)
(***************************************************************************)
\* Option<&str> project_id as a set: {} is None (the global scope).
ScopeName(scope) == IF scope = {} THEN "global" ELSE CHOOSE x \in scope : TRUE

PermKey(user_id, scope) ==
    "permissions:" \o user_id \o ":" \o ScopeName(scope)

RoleKey(role_id) == "role:" \o role_id

\* redis GET: Some(value) as {value}, a missing key as {}.
CacheGet(c, key) == IF key \in DOMAIN c THEN {c[key]} ELSE {}

\* redis SETEX key value ttl.
CacheSet(c, key, value) ==
    [k \in DOMAIN c \cup {key} |-> IF k = key THEN value ELSE c[k]]

\* redis DEL key.
CacheDel(c, key) == [k \in DOMAIN c \ {key} |-> c[k]]

\* A stored string that serde_json::from_str does not decode.
Garbled == [json |-> "?"]

\* redis answered the GET with a string that decodes.
Answered(c, key) == cacheUp /\ key \in DOMAIN c /\ c[key] # Garbled

\* Mutant: a decodable entry is used even when redis refused the call.
RedisGet_Through(c, key) == {v \in CacheGet(c, key) : v # Garbled}

\* The service's cache calls: a redis error or an undecodable string reads
\* as a miss (`_ => None`, `.ok()`); an error is dropped on a write or a
\* delete (`let _ = ...`).
RedisGet(c, key) == IF Answered(c, key) THEN CacheGet(c, key) ELSE {}

RedisSetex(c, key, value) == IF cacheUp THEN CacheSet(c, key, value) ELSE c

RedisDel(c, key) == IF cacheUp THEN CacheDel(c, key) ELSE c

\* Lifetimes kept by redis: SETEX starts one, DEL ends it.
ExpiresSetex(key, ttl) ==
    IF cacheUp THEN CacheSet(expires, key, now + ttl) ELSE expires

ExpiresDel(key) == IF cacheUp THEN CacheDel(expires, key) ELSE expires

\* The instant recorded when a write changed a collection.
Committed ==
    lastWrite' = IF documents' # documents THEN now ELSE lastWrite

(***************************************************************************)
(* Document store queries                                                  *)
(***************************************************************************)
RolesById(role_id) == {r \in roles : r.role_id = role_id}

RolesByIdTenant(role_id, tenant_id) ==
    {r \in roles : r.role_id = role_id /\ r.tenant_id = tenant_id}

get_tenant_roles(tenant_id) == {r \in roles : r.tenant_id = tenant_id}

MembershipsOf(user_id, project_id) ==
    {m \in memberships : m.user_id = user_id /\ m.project_id = project_id}

MembershipsOfTenant(user_id, project_id, tenant_id) ==
    {m \in MembershipsOf(user_id, project_id) : m.tenant_id = tenant_id}

get_memberships_by_role(role_id) == {m \in memberships : m.role_id = role_id}

\* find_one: any one matching document as Some, or None.
FindOne(matching) == IF matching = {} THEN {{}} ELSE {{d} : d \in matching}

get_project(project_id) ==
    IF project_id \in DOMAIN projects
    THEN {[project_id |-> project_id,
           owner_id |-> projects[project_id].owner_id,
           tenant_id |-> projects[project_id].tenant_id]}
    ELSE {}

Uuid(n) == "id" \o ToString(n)

(***************************************************************************)
(* Requests                                                                *)
(***************************************************************************)
NoResult == [status |-> "", msg |-> "", val |-> {}]
NoDto == [name |-> {}, description |-> {}, permissions |-> {}]

IdleProc ==
    [op |-> "idle", pc |-> "idle",
     user_id |-> "", scope |-> {}, permission |-> "", role_id |-> "",
     tenant_id |-> "", dto |-> NoDto,
     gr |-> "none", gr_id |-> "", role |-> [ok |-> TRUE, val |-> {}],
     written |-> {},
     membership |-> {}, flag |-> "", permissions |-> {}, is_admin |-> FALSE,
     hit |-> FALSE, failed |-> FALSE, flag_at_call |-> "", after_ok |-> {},
     seen_seeded |-> "", returned_at |-> 0, answered |-> FALSE,
     role_at_call |-> {}, resolution |-> NoResult, required |-> <<>>,
     snapshot |-> {},
     dels |-> <<>>, cnt |-> 0, res |-> NoResult]

Ok(v) == [status |-> "ok", msg |-> "", val |-> {v}]
Err(msg) == [status |-> "error", msg |-> msg, val |-> {}]
Forbidden(msg) == [status |-> "forbidden", msg |-> msg, val |-> {}]

IsOk(res) == res.status = "ok"
Value(res) == CHOOSE v \in res.val : TRUE

\* middleware/rbac.rs check_permission, after resolve_permissions returned.
check_permission(resolution, permission) ==
    IF ~IsOk(resolution) THEN Err("Permission check failed")
    ELSE IF ~has_permission(Value(resolution), permission)
         THEN Forbidden("Insufficient permissions")
         ELSE resolution

\* Mutant: verify_project_access without the project:read test.
verify_project_access_NoReadCheck(resolution, tenant_id) ==
    IF ~IsOk(resolution) THEN Err("Access check failed") ELSE resolution

\* middleware/rbac.rs verify_project_access, after resolve_permissions
\* returned (tenant_id is not consulted).
verify_project_access(resolution, tenant_id) ==
    IF ~IsOk(resolution) THEN Err("Access check failed")
    ELSE IF Value(resolution).is_admin THEN resolution
    ELSE IF ~has_permission(Value(resolution), "ProjectRead")
         THEN Forbidden("You do not have access to this project")
         ELSE resolution

ResolverOps == {"resolve_permissions", "check_permission", "verify_project_access"}

\* What the caller of a resolver entry point receives for a resolution.
Deliver(rec, resolution) ==
    CASE rec.op = "check_permission" -> check_permission(resolution, rec.permission)
      [] rec.op = "verify_project_access" ->
            verify_project_access(resolution, rec.tenant_id)
      [] OTHER -> resolution

Done(rec, res) ==
    [rec EXCEPT !.pc = "done", !.gr = "none", !.returned_at = now,
                !.resolution = res,
                !.res = IF rec.op \in ResolverOps THEN Deliver(rec, res) ELSE res]

\* Mutant: a failed store call is taken for an empty resolution.
StoreError_FailOpen(rec, msg) ==
    Done([rec EXCEPT !.failed = TRUE],
         Ok([user_id |-> rec.user_id, project_id |-> rec.scope,
             permissions |-> {}, is_admin |-> FALSE, resolved_at |-> now]))

\* A store call failed (`.map_err(...)?`).
StoreError(rec, msg) == Done([rec EXCEPT !.failed = TRUE], Err(msg))

\* A slot is free before its first request and once its request has returned.
Busy(p) == proc[p].pc \notin {"idle", "done"}

\* A request takes the lowest free slot (the slots are interchangeable).
Begin(p, rec) ==
    /\ ~Busy(p)
    /\ \A q \in Procs : q < p => Busy(q)
    /\ ops > 0
    /\ ops' = ops - 1
    /\ proc' = [proc EXCEPT ![p] = rec]

Step(p, rec) == proc' = [proc EXCEPT ![p] = rec]

(***************************************************************************)
(* resolve_permissions (services/rbac.rs 30-75)                            *)
(***************************************************************************)
ResolvedPermissions(rec) ==
    [user_id |-> rec.user_id, project_id |-> rec.scope,
     permissions |-> rec.permissions, is_admin |-> rec.is_admin,
     resolved_at |-> now]

\* Mutant: the admin short-circuit is taken in the global scope only.
AfterUser_AdminGlobalOnly(rec, flag) ==
    IF flag = "admin" /\ rec.scope = {}
    THEN [rec EXCEPT !.flag = flag, !.is_admin = TRUE,
                     !.permissions = AllPermissionStrings, !.pc = "rp_set"]
    ELSE IF rec.scope # {}
         THEN [rec EXCEPT !.flag = flag, !.pc = "gpp_membership"]
         ELSE [rec EXCEPT !.flag = flag,
                          !.permissions = get_global_permissions(flag),
                          !.pc = "rp_set"]

\* Lines 47-61: what follows the user lookup, by role flag and scope.
AfterUser(rec, flag) ==
    LET is_admin == (flag = "admin") IN
    IF is_admin
    THEN [rec EXCEPT !.flag = flag, !.is_admin = TRUE,
                     !.permissions = AllPermissionStrings, !.pc = "rp_set"]
    ELSE IF rec.scope # {}
         THEN [rec EXCEPT !.flag = flag, !.pc = "gpp_membership"]
         ELSE [rec EXCEPT !.flag = flag,
                          !.permissions = get_global_permissions(flag),
                          !.pc = "rp_set"]

\* Lines 94-103: the ownership fallback of get_project_permissions.
OwnerFallback(project, user_id) ==
    IF project # {} /\ (CHOOSE x \in project : TRUE).owner_id = user_id
    THEN get_owner_permissions
    ELSE {}

\* Mutant: a membership whose role is not found fails the resolution.
AfterMembershipRole_MissingRoleFails(rec) ==
    IF ~rec.role.ok THEN StoreError(rec, "Failed to get role")
    ELSE IF rec.role.val # {}
         THEN [rec EXCEPT !.permissions =
                              ToSet((CHOOSE r \in rec.role.val : TRUE).permissions),
                          !.pc = "rp_set", !.gr = "none"]
         ELSE Done(rec, Err("Role not found"))

\* Lines 88-92: get_project_permissions after get_role_by_id returned.
AfterMembershipRole(rec) ==
    IF ~rec.role.ok THEN StoreError(rec, "Failed to get role")
    ELSE IF rec.role.val # {}
         THEN [rec EXCEPT !.permissions =
                              ToSet((CHOOSE r \in rec.role.val : TRUE).permissions),
                          !.pc = "rp_set", !.gr = "none"]
         ELSE [rec EXCEPT !.pc = "gpp_project", !.gr = "none"]

\* The operations seen to have returned Ok when a resolution is called.
ReturnedOk ==
    {[op |-> proc[q].op, user_id |-> proc[q].user_id, scope |-> proc[q].scope,
      role_id |-> proc[q].role_id] :
        q \in {x \in Procs : proc[x].pc = "done" /\ IsOk(proc[x].res)}}

\* The request record of a call of a resolver entry point.
ResolveRequest(op, user_id, scope, permission, tenant_id) ==
    [IdleProc EXCEPT !.op = op, !.pc = "rp_cache",
                     !.user_id = user_id, !.scope = scope,
                     !.permission = permission,
                     !.tenant_id = tenant_id,
                     !.flag_at_call =
                         IF user_id \in DOMAIN users
                         THEN users[user_id].role ELSE "",
                     !.after_ok = ReturnedOk]

StartResolve(p, op, user_id, scope, permission, tenant_id) ==
    /\ Begin(p, ResolveRequest(op, user_id, scope, permission, tenant_id))
    /\ UNCHANGED <<store, cache, dbUp, cacheUp, now, nextId, seeded>>

\* Mutant: a hit writes the entry back with a fresh TTL.
Resolve_CacheGet_HitRefreshes(p) ==
    /\ proc[p].pc = "rp_cache"
    /\ LET key == PermKey(proc[p].user_id, proc[p].scope)
           rec == [proc[p] EXCEPT !.answered = Answered(permCache, key)]
           c == RedisGet(permCache, key) IN
       IF c # {}
       THEN /\ Step(p, Done([rec EXCEPT !.hit = TRUE], Ok(CHOOSE v \in c : TRUE)))
            /\ expires' = ExpiresSetex(key, PERMISSION_CACHE_TTL)
       ELSE /\ Step(p, [rec EXCEPT !.pc = "rp_user"])
            /\ UNCHANGED expires
    /\ UNCHANGED <<store, permCache, roleCache, dbUp, cacheUp, now, nextId,
                   ops, seeded>>

\* get_cached_permissions: a hit returns the entry as it is.
Resolve_CacheGet(p) ==
    /\ proc[p].pc = "rp_cache"
    /\ LET key == PermKey(proc[p].user_id, proc[p].scope)
           rec == [proc[p] EXCEPT !.answered = Answered(permCache, key)]
           c == RedisGet(permCache, key) IN
       IF c # {}
       THEN Step(p, Done([rec EXCEPT !.hit = TRUE], Ok(CHOOSE v \in c : TRUE)))
       ELSE Step(p, [rec EXCEPT !.pc = "rp_user"])
    /\ UNCHANGED <<store, cache, dbUp, cacheUp, now, nextId, ops, seeded>>

\* get_user, then lines 47-61.
Resolve_GetUser(p) ==
    /\ proc[p].pc = "rp_user"
    /\ LET rec == [proc[p] EXCEPT !.snapshot = {documents}] IN
       IF ~dbUp THEN Step(p, StoreError(rec, "Failed to get user"))
       ELSE IF rec.user_id \notin DOMAIN users
            THEN Step(p, Done(rec, Err("User not found")))
            ELSE Step(p, AfterUser(rec, users[rec.user_id].role))
    /\ UNCHANGED <<store, cache, dbUp, cacheUp, now, nextId, ops, seeded>>

\* get_project_permissions: get_membership, then the call of get_role_by_id.
Resolve_GetMembership(p) ==
    /\ proc[p].pc = "gpp_membership"
    /\ LET rec == proc[p] IN
       IF ~dbUp THEN Step(p, StoreError(rec, "Failed to get membership"))
       ELSE \E found \in FindOne(MembershipsOf(rec.user_id, ScopeName(rec.scope))) :
              IF found = {}
              THEN Step(p, [rec EXCEPT !.pc = "gpp_project"])
              ELSE Step(p, [rec EXCEPT !.membership = found,
                                       !.pc = "gpp_role", !.gr = "cache",
                                       !.gr_id = (CHOOSE m \in found : TRUE).role_id])
    /\ UNCHANGED <<store, cache, dbUp, cacheUp, now, nextId, ops, seeded>>

\* get_project_permissions: get_project and the ownership fallback.
Resolve_GetProject(p) ==
    /\ proc[p].pc = "gpp_project"
    /\ LET rec == proc[p] IN
       IF ~dbUp THEN Step(p, StoreError(rec, "Failed to get project"))
       ELSE Step(p, [rec EXCEPT
                       !.permissions =
                           OwnerFallback(get_project(ScopeName(rec.scope)), rec.user_id),
                       !.pc = "rp_set"])
    /\ UNCHANGED <<store, cache, dbUp, cacheUp, now, nextId, ops, seeded>>

\* cache_permissions (SETEX, PERMISSION_CACHE_TTL), then Ok(resolved).
Resolve_CacheSet(p) ==
    /\ proc[p].pc = "rp_set"
    /\ LET rec == proc[p]
           resolved == ResolvedPermissions(rec) IN
       /\ permCache' = RedisSetex(permCache, PermKey(rec.user_id, rec.scope),
                                 resolved)
       /\ expires' = ExpiresSetex(PermKey(rec.user_id, rec.scope),
                                  PERMISSION_CACHE_TTL)
       /\ Step(p, Done(rec, Ok(resolved)))
    /\ UNCHANGED <<store, roleCache, dbUp, cacheUp, now, nextId, ops, seeded>>

(***************************************************************************)
(* Role and membership operations: the checks made between store calls     *)
(***************************************************************************)
Min(S) == CHOOSE x \in S : \A y \in S : x <= y

\* Mutant: the validation loop accepts every string.
ValidatePermissions_AcceptAll(perms) == ""

\* The `for perm in perms` validation loop: "" when every entry decodes,
\* otherwise the error naming the first entry that does not.
ValidatePermissions(perms) ==
    LET bad == {i \in DOMAIN perms : from_str(perms[i]) = {}} IN
    IF bad = {} THEN "" ELSE "Invalid permission: " \o perms[Min(bad)]

\* Mutant: update_role without the is_system_role test.
UpdateRoleGuard_NoSystemCheck(existing, dto, tenant_id) ==
    IF existing.tenant_id # tenant_id THEN "Access denied"
    ELSE IF dto.permissions # {}
         THEN ValidatePermissions(CHOOSE v \in dto.permissions : TRUE)
         ELSE ""

\* update_role lines 217-232: "" to go on, or the error returned.
UpdateRoleGuard(existing, dto, tenant_id) ==
    IF existing.is_system_role THEN "Cannot modify system role"
    ELSE IF existing.tenant_id # tenant_id THEN "Access denied"
    ELSE IF dto.permissions # {}
         THEN ValidatePermissions(CHOOSE v \in dto.permissions : TRUE)
         ELSE ""

\* Mutant: delete_role without the tenant test.
DeleteRoleGuard_NoTenantCheck(role, tenant_id) ==
    IF role.is_system_role THEN "Cannot delete system role" ELSE ""

\* delete_role lines 275-281.
DeleteRoleGuard(role, tenant_id) ==
    IF role.is_system_role THEN "Cannot delete system role"
    ELSE IF role.tenant_id # tenant_id THEN "Access denied"
    ELSE ""

\* Mutant: delete_role ignores the count of referencing memberships.
RoleInUse_Never(membership_count) == ""

\* delete_role lines 290-295, on the count of referencing memberships.
RoleInUse(membership_count) ==
    IF membership_count > 0
    THEN "Cannot delete role: " \o ToString(membership_count)
             \o " users are assigned to it"
    ELSE ""

\* The $set document of update_role applied to a stored role.
ApplyUpdate(d, dto) ==
    [d EXCEPT !.name = IF dto.name # {} THEN CHOOSE v \in dto.name : TRUE ELSE @,
              !.description =
                  IF dto.description # {}
                  THEN CHOOSE v \in dto.description : TRUE ELSE @,
              !.permissions =
                  IF dto.permissions # {}
                  THEN CHOOSE v \in dto.permissions : TRUE ELSE @,
              !.updated_at = now]

\* update_one / delete_one act on one matching document, or on none.
OneOf(matching) == IF matching = {} THEN {{}} ELSE {{d} : d \in matching}

\* A cursor returns the documents in insertion (_id) order.
RECURSIVE CursorOrder(_)
CursorOrder(S) ==
    IF S = {} THEN <<>>
    ELSE LET first == CHOOSE d \in S : \A e \in S : d.id <= e.id IN
         <<first>> \o CursorOrder(S \ {first})

\* Mutant: the global entry of the user is left alone.
UserPermissionKeys_ProjectOnly(user_id, scope) ==
    IF scope # {} THEN <<PermKey(user_id, scope)>> ELSE <<PermKey(user_id, {})>>

\* invalidate_user_permissions: the keys deleted, in order.
UserPermissionKeys(user_id, scope) ==
    (IF scope # {} THEN <<PermKey(user_id, scope)>> ELSE <<>>)
        \o <<PermKey(user_id, {})>>

\* invalidate_permissions_for_role: the keys deleted for a membership list.
RECURSIVE RolePermissionKeys(_)
RolePermissionKeys(ms) ==
    IF ms = <<>> THEN <<>>
    ELSE UserPermissionKeys(Head(ms).user_id, {Head(ms).project_id})
             \o RolePermissionKeys(Tail(ms))

\* The four roles of initialize_system_roles, in insertion order.
SystemRoles(tenant_id) ==
    <<[role_id |-> tenant_id \o "-admin", name |-> "Administrator",
       description |-> "Full system access", permissions |-> StrVec(all)],
      [role_id |-> tenant_id \o "-owner", name |-> "Project Owner",
       description |-> "Full project access",
       permissions |-> StrVec(<<"ProjectRead", "ProjectUpdate",
           "ProjectManageMembers", "UserRead", "ChatRead", "ChatWrite",
           "ChatDelete", "ChatExport", "ReportCreate", "ReportRead",
           "ReportExport", "ReportDelete">>)],
      [role_id |-> tenant_id \o "-member", name |-> "Project Member",
       description |-> "Standard project access",
       permissions |-> StrVec(<<"ProjectRead", "ChatRead", "ChatWrite",
           "ReportCreate", "ReportRead">>)],
      [role_id |-> tenant_id \o "-viewer", name |-> "Viewer",
       description |-> "Read-only access",
       permissions |-> StrVec(<<"ProjectRead", "ChatRead", "ReportRead">>)]>>

\* A Role document; id is the store's _id (0 while the struct holds None).
RoleDoc(id, role_id, name, description, permissions, is_system_role, tenant_id) ==
    [id |-> id, role_id |-> role_id, name |-> name, description |-> description,
     permissions |-> permissions, is_system_role |-> is_system_role,
     tenant_id |-> tenant_id, created_at |-> 0, updated_at |-> 0]

MembershipDoc(id, membership_id, user_id, project_id, role_id, tenant_id) ==
    [id |-> id, membership_id |-> membership_id, user_id |-> user_id,
     project_id |-> project_id, role_id |-> role_id, tenant_id |-> tenant_id,
     created_at |-> 0, updated_at |-> 0]

\* `let now = DateTime::now()` put into created_at and updated_at of a new
\* document.
Stamped(doc) == [doc EXCEPT !.created_at = now, !.updated_at = now]

TheRole(rec) == CHOOSE r \in rec.role.val : TRUE

(***************************************************************************)
(* What each caller of get_role_by_id does with its result                 *)
(***************************************************************************)
\* update_role lines 214-232.
AfterUpdateLookup(rec) ==
    IF ~rec.role.ok THEN StoreError(rec, "Failed to get role")
    ELSE IF rec.role.val = {} THEN Done(rec, Err("Role not found"))
    ELSE LET e == UpdateRoleGuard(TheRole(rec), rec.dto, rec.tenant_id) IN
         IF e # "" THEN Done(rec, Err(e))
         ELSE [rec EXCEPT !.pc = "ur_write", !.gr = "none"]

\* update_role lines 266-267.
AfterUpdateReread(rec) ==
    IF ~rec.role.ok THEN StoreError(rec, "Failed to get role")
    ELSE IF rec.role.val = {} THEN Done(rec, Err("Role not found after update"))
    ELSE Done(rec, Ok(TheRole(rec)))

\* delete_role lines 272-281.
AfterDeleteLookup(rec) ==
    IF ~rec.role.ok THEN StoreError(rec, "Failed to get role")
    ELSE IF rec.role.val = {} THEN Done(rec, Err("Role not found"))
    ELSE LET e == DeleteRoleGuard(TheRole(rec), rec.tenant_id) IN
         IF e # "" THEN Done(rec, Err(e))
         ELSE [rec EXCEPT !.pc = "dr_count", !.gr = "none"]

\* assign_role lines 357-362.
AfterAssignLookup(rec) ==
    IF ~rec.role.ok THEN StoreError(rec, "Failed to get role")
    ELSE IF rec.role.val = {} THEN Done(rec, Err("Role not found"))
    ELSE IF TheRole(rec).tenant_id # rec.tenant_id
         THEN Done(rec, Err("Role does not belong to this tenant"))
         ELSE [rec EXCEPT !.pc = "ar_project", !.gr = "none"]

\* handlers/rbac.rs get_role lines 124-136: a role of another tenant is
\* answered like no role.
AfterGetRole(rec) ==
    IF ~rec.role.ok THEN StoreError(rec, "Failed to get role")
    ELSE IF rec.role.val = {} \/ TheRole(rec).tenant_id # rec.tenant_id
         THEN Done(rec, Err("Role not found"))
         ELSE Done(rec, Ok(TheRole(rec)))

\* The return of get_role_by_id into the handler that awaits it.
Continue(rec) ==
    CASE rec.pc = "gpp_role" -> AfterMembershipRole(rec)
      [] rec.pc = "gr_handler" -> AfterGetRole(rec)
      [] rec.pc = "ur_check" -> AfterUpdateLookup(rec)
      [] rec.pc = "ur_reread" -> AfterUpdateReread(rec)
      [] rec.pc = "dr_check" -> AfterDeleteLookup(rec)
      [] rec.pc = "ar_role" -> AfterAssignLookup(rec)

\* The return of the invalidation loop into the handler that awaits it.
AfterInvalidate(rec) ==
    CASE rec.pc = "ur_inv" ->
            [rec EXCEPT !.pc = "ur_reread", !.gr = "cache", !.gr_id = rec.role_id]
      [] rec.pc = "ar_inv" -> Done(rec, Ok(CHOOSE m \in rec.membership : TRUE))
      [] rec.pc = "um_inv" -> [rec EXCEPT !.pc = "um_get"]
      [] rec.pc = "rv_inv" -> Done(rec, Ok("unit"))

WithKeys(rec, keys) ==
    IF keys = <<>> THEN AfterInvalidate(rec) ELSE [rec EXCEPT !.dels = keys]

(***************************************************************************)
(* get_role_by_id (services/rbac.rs 311-330)                               *)
(***************************************************************************)
\* Mutant: a hit writes the Role back, starting its lifetime again.
GetRole_Cache_HitRefreshes(p) ==
    /\ proc[p].gr = "cache"
    /\ LET rec == [proc[p] EXCEPT
                      !.answered = @ \/ Answered(roleCache, RoleKey(proc[p].gr_id))]
           c == RedisGet(roleCache, RoleKey(rec.gr_id)) IN
       IF c # {}
       THEN Step(p, [rec EXCEPT !.role = [ok |-> TRUE, val |-> c], !.gr = "set"])
       ELSE Step(p, [rec EXCEPT !.gr = "find"])
    /\ UNCHANGED <<store, cache, dbUp, cacheUp, now, nextId, ops, seeded>>

\* get_cached_role: a hit returns the cached Role.
GetRole_Cache(p) ==
    /\ proc[p].gr = "cache"
    /\ LET rec == [proc[p] EXCEPT
                      !.answered = @ \/ Answered(roleCache, RoleKey(proc[p].gr_id))]
           c == RedisGet(roleCache, RoleKey(rec.gr_id)) IN
       IF c # {}
       THEN Step(p, Continue([rec EXCEPT !.role = [ok |-> TRUE, val |-> c],
                                          !.gr = "done"]))
       ELSE Step(p, [rec EXCEPT !.gr = "find"])
    /\ UNCHANGED <<store, cache, dbUp, cacheUp, now, nextId, ops, seeded>>

\* roles_collection().find_one({role_id}).
GetRole_Find(p) ==
    /\ proc[p].gr = "find"
    /\ LET rec == proc[p] IN
       IF ~dbUp
       THEN Step(p, Continue([rec EXCEPT !.role = [ok |-> FALSE, val |-> {}],
                                          !.gr = "done"]))
       ELSE \E found \in FindOne(RolesById(rec.gr_id)) :
              IF found = {}
              THEN Step(p, Continue([rec EXCEPT !.role = [ok |-> TRUE, val |-> {}],
                                                 !.gr = "done"]))
              ELSE Step(p, [rec EXCEPT !.role = [ok |-> TRUE, val |-> found],
                                       !.gr = "set"])
    /\ UNCHANGED <<store, cache, dbUp, cacheUp, now, nextId, ops, seeded>>

\* cache_role (SETEX, ROLE_CACHE_TTL), then Ok(role).
GetRole_Set(p) ==
    /\ proc[p].gr = "set"
    /\ LET rec == proc[p] IN
       /\ roleCache' = RedisSetex(roleCache, RoleKey(rec.gr_id), TheRole(rec))
       /\ expires' = ExpiresSetex(RoleKey(rec.gr_id), ROLE_CACHE_TTL)
       /\ Step(p, Continue([rec EXCEPT !.gr = "done"]))
    /\ UNCHANGED <<store, permCache, dbUp, cacheUp, now, nextId, ops, seeded>>

\* One redis DEL of invalidate_user_permissions.
Invalidate_Del(p) ==
    /\ proc[p].dels # <<>>
    /\ LET rec == proc[p] IN
       /\ permCache' = RedisDel(permCache, Head(rec.dels))
       /\ expires' = ExpiresDel(Head(rec.dels))
       /\ Step(p, WithKeys([rec EXCEPT !.dels = <<>>], Tail(rec.dels)))
    /\ UNCHANGED <<store, roleCache, dbUp, cacheUp, now, nextId, ops, seeded>>

(***************************************************************************)
(* The role handlers (handlers/rbac.rs 106-199), once the caller's         *)
(* permission check has passed                                             *)
(***************************************************************************)
StartGetRole(p, role_id, tenant_id) ==
    /\ Begin(p, [IdleProc EXCEPT !.op = "get_role", !.pc = "gr_handler",
                                 !.role_id = role_id, !.tenant_id = tenant_id,
                                 !.gr = "cache", !.gr_id = role_id])
    /\ UNCHANGED <<store, cache, dbUp, cacheUp, now, nextId, seeded>>

\* The HttpResponse built from the service's result: status code and the
\* "error" field of the body.
Respond(rec) ==
    CASE rec.op = "get_role" ->
            IF IsOk(rec.res) THEN [code |-> 200, error |-> ""]
            ELSE IF rec.failed THEN [code |-> 500, error |-> rec.res.msg]
            ELSE [code |-> 404, error |-> "Role not found"]
      [] rec.op = "update_role" ->
            IF IsOk(rec.res) THEN [code |-> 200, error |-> ""]
            ELSE [code |-> 400, error |-> rec.res.msg]
      [] rec.op = "delete_role" ->
            IF IsOk(rec.res) THEN [code |-> 204, error |-> ""]
            ELSE [code |-> 400, error |-> rec.res.msg]

(***************************************************************************)
(* create_role (services/rbac.rs 169-205)                                  *)
(***************************************************************************)
StartCreateRole(p, dto, tenant_id) ==
    /\ LET rec == [IdleProc EXCEPT !.op = "create_role", !.dto = dto,
                                   !.tenant_id = tenant_id]
           e == ValidatePermissions(CHOOSE v \in dto.permissions : TRUE) IN
       Begin(p, IF e # "" THEN Done(rec, Err(e))
                ELSE [rec EXCEPT !.pc = "cr_insert"])
    /\ UNCHANGED <<store, cache, dbUp, cacheUp, now, nextId, seeded>>

CreateRole_Insert(p) ==
    /\ proc[p].pc = "cr_insert"
    /\ LET rec == proc[p]
           role == Stamped(RoleDoc(0, Uuid(nextId),
                                   CHOOSE v \in rec.dto.name : TRUE,
                                   CHOOSE v \in rec.dto.description : TRUE,
                                   CHOOSE v \in rec.dto.permissions : TRUE,
                                   FALSE, rec.tenant_id)) IN
       IF ~dbUp
       THEN /\ Step(p, StoreError(rec, "Failed to create role"))
            /\ UNCHANGED <<roles, nextId>>
       ELSE /\ roles' = roles \cup {[role EXCEPT !.id = nextId]}
            /\ nextId' = nextId + 1
            /\ Step(p, [rec EXCEPT !.pc = "cr_inv", !.role_id = role.role_id,
                                   !.role = [ok |-> TRUE, val |-> {role}]])
    /\ UNCHANGED <<users, projects, memberships, cache, dbUp,
                   cacheUp, now, ops, seeded>>
    /\ Committed

CreateRole_Invalidate(p) ==
    /\ proc[p].pc = "cr_inv"
    /\ roleCache' = RedisDel(roleCache, RoleKey(proc[p].role_id))
    /\ expires' = ExpiresDel(RoleKey(proc[p].role_id))
    /\ Step(p, Done(proc[p], Ok(TheRole(proc[p]))))
    /\ UNCHANGED <<store, permCache, dbUp, cacheUp, now, nextId, ops, seeded>>

(***************************************************************************)
(* update_role (services/rbac.rs 208-268)                                  *)
(***************************************************************************)
StartUpdateRole(p, role_id, dto, tenant_id) ==
    /\ Begin(p, [IdleProc EXCEPT !.op = "update_role", !.pc = "ur_check",
                                 !.role_id = role_id, !.dto = dto,
                                 !.tenant_id = tenant_id,
                                 !.gr = "cache", !.gr_id = role_id])
    /\ UNCHANGED <<store, cache, dbUp, cacheUp, now, nextId, seeded>>

\* update_one({role_id, tenant_id}, {$set: ...}).
UpdateRole_Write(p) ==
    /\ proc[p].pc = "ur_write"
    /\ LET rec == proc[p] IN
       IF ~dbUp
       THEN /\ Step(p, StoreError(rec, "Failed to update role"))
            /\ UNCHANGED roles
       ELSE /\ \E d \in OneOf(RolesByIdTenant(rec.role_id, rec.tenant_id)) :
                 roles' = (roles \ d) \cup {ApplyUpdate(x, rec.dto) : x \in d}
            /\ Step(p, [rec EXCEPT !.pc = "ur_inv_role"])
    /\ UNCHANGED <<users, projects, memberships, cache, dbUp,
                   cacheUp, now, nextId, ops, seeded>>
    /\ Committed

\* invalidate_role_cache(role_id).
UpdateRole_InvalidateRole(p) ==
    /\ proc[p].pc = "ur_inv_role"
    /\ roleCache' = RedisDel(roleCache, RoleKey(proc[p].role_id))
    /\ expires' = ExpiresDel(RoleKey(proc[p].role_id))
    /\ Step(p, [proc[p] EXCEPT !.pc = "ur_inv_list"])
    /\ UNCHANGED <<store, permCache, dbUp, cacheUp, now, nextId, ops, seeded>>

\* invalidate_permissions_for_role: the membership listing (its failure is
\* swallowed and skips the deletes).
UpdateRole_ListMembers(p) ==
    /\ proc[p].pc = "ur_inv_list"
    /\ LET rec == [proc[p] EXCEPT !.pc = "ur_inv"] IN
       IF ~dbUp THEN Step(p, AfterInvalidate(rec))
       ELSE Step(p, WithKeys(rec, RolePermissionKeys(
                        CursorOrder(get_memberships_by_role(rec.role_id)))))
    /\ UNCHANGED <<store, cache, dbUp, cacheUp, now, nextId, ops, seeded>>

(***************************************************************************)
(* delete_role (services/rbac.rs 271-308)                                  *)
(***************************************************************************)
StartDeleteRole(p, role_id, tenant_id) ==
    /\ Begin(p, [IdleProc EXCEPT !.op = "delete_role", !.pc = "dr_check",
                                 !.role_id = role_id, !.tenant_id = tenant_id,
                                 !.gr = "cache", !.gr_id = role_id])
    /\ UNCHANGED <<store, cache, dbUp, cacheUp, now, nextId, seeded>>

\* count_documents({role_id}) and the in-use check.
DeleteRole_Count(p) ==
    /\ proc[p].pc = "dr_count"
    /\ LET rec == proc[p]
           membership_count == Cardinality(get_memberships_by_role(rec.role_id))
           e == RoleInUse(membership_count) IN
       IF ~dbUp THEN Step(p, StoreError(rec, "Failed to check role usage"))
       ELSE IF e # ""
            THEN Step(p, Done([rec EXCEPT !.cnt = membership_count], Err(e)))
            ELSE Step(p, [rec EXCEPT !.cnt = membership_count, !.pc = "dr_delete"])
    /\ UNCHANGED <<store, cache, dbUp, cacheUp, now, nextId, ops, seeded>>

\* delete_one({role_id, tenant_id}).
DeleteRole_Delete(p) ==
    /\ proc[p].pc = "dr_delete"
    /\ LET rec == proc[p] IN
       IF ~dbUp
       THEN /\ Step(p, StoreError(rec, "Failed to delete role"))
            /\ UNCHANGED roles
       ELSE /\ \E d \in OneOf(RolesByIdTenant(rec.role_id, rec.tenant_id)) :
                 roles' = roles \ d
            /\ Step(p, [rec EXCEPT !.pc = "dr_inv"])
    /\ UNCHANGED <<users, projects, memberships, cache, dbUp,
                   cacheUp, now, nextId, ops, seeded>>
    /\ Committed

DeleteRole_Invalidate(p) ==
    /\ proc[p].pc = "dr_inv"
    /\ roleCache' = RedisDel(roleCache, RoleKey(proc[p].role_id))
    /\ expires' = ExpiresDel(RoleKey(proc[p].role_id))
    /\ Step(p, Done(proc[p], Ok("unit")))
    /\ UNCHANGED <<store, permCache, dbUp, cacheUp, now, nextId, ops, seeded>>

(***************************************************************************)
(* assign_role / update_membership (services/rbac.rs 355-444)              *)
(***************************************************************************)
StartAssignRole(p, user_id, project_id, role_id, tenant_id) ==
    /\ Begin(p, [IdleProc EXCEPT !.op = "assign_role", !.pc = "ar_role",
                                 !.user_id = user_id, !.scope = {project_id},
                                 !.role_id = role_id, !.tenant_id = tenant_id,
                                 !.role_at_call = RolesById(role_id),
                                 !.gr = "cache", !.gr_id = role_id])
    /\ UNCHANGED <<store, cache, dbUp, cacheUp, now, nextId, seeded>>

\* Lines 365-370: the project exists and belongs to the tenant.
AssignRole_GetProject(p) ==
    /\ proc[p].pc = "ar_project"
    /\ LET rec == proc[p]
           project == get_project(ScopeName(rec.scope)) IN
       IF ~dbUp THEN Step(p, StoreError(rec, "Failed to get project"))
       ELSE IF project = {} THEN Step(p, Done(rec, Err("Project not found")))
       ELSE IF (CHOOSE x \in project : TRUE).tenant_id # rec.tenant_id
            THEN Step(p, Done(rec, Err("Project does not belong to this tenant")))
            ELSE Step(p, [rec EXCEPT !.pc = "ar_user"])
    /\ UNCHANGED <<store, cache, dbUp, cacheUp, now, nextId, ops, seeded>>

\* Line 373: the user exists.
AssignRole_GetUser(p) ==
    /\ proc[p].pc = "ar_user"
    /\ LET rec == proc[p] IN
       IF ~dbUp THEN Step(p, StoreError(rec, "Failed to get user"))
       ELSE IF rec.user_id \notin DOMAIN users
            THEN Step(p, Done(rec, Err("User not found")))
            ELSE Step(p, [rec EXCEPT !.pc = "ar_membership"])
    /\ UNCHANGED <<store, cache, dbUp, cacheUp, now, nextId, ops, seeded>>

\* Lines 376-381: insert, or update when a membership is found.
AssignRole_GetMembership(p) ==
    /\ proc[p].pc = "ar_membership"
    /\ LET rec == proc[p] IN
       IF ~dbUp THEN Step(p, StoreError(rec, "Failed to get membership"))
       ELSE IF MembershipsOf(rec.user_id, ScopeName(rec.scope)) # {}
            THEN Step(p, [rec EXCEPT !.pc = "um_write"])
            ELSE Step(p, [rec EXCEPT !.pc = "ar_insert"])
    /\ UNCHANGED <<store, cache, dbUp, cacheUp, now, nextId, ops, seeded>>

\* Lines 384-403: insert_one of a new membership.
AssignRole_Insert(p) ==
    /\ proc[p].pc = "ar_insert"
    /\ LET rec == proc[p]
           membership == Stamped(MembershipDoc(0, Uuid(nextId), rec.user_id,
                                               ScopeName(rec.scope), rec.role_id,
                                               rec.tenant_id)) IN
       IF ~dbUp
       THEN /\ Step(p, StoreError(rec, "Failed to assign role"))
            /\ UNCHANGED <<memberships, nextId>>
       ELSE /\ memberships' = memberships \cup {[membership EXCEPT !.id = nextId]}
            /\ nextId' = nextId + 1
            /\ Step(p, [rec EXCEPT !.pc = "ar_inv", !.membership = {membership},
                                   !.dels = UserPermissionKeys(rec.user_id, rec.scope)])
    /\ UNCHANGED <<users, projects, roles, cache, dbUp,
                   cacheUp, now, ops, seeded>>
    /\ Committed

\* Mutant: the membership is replaced by a newly created one.
UpdateMembership_Write_Reinsert(p) ==
    /\ proc[p].pc = "um_write"
    /\ LET rec == proc[p] IN
       IF ~dbUp
       THEN /\ Step(p, StoreError(rec, "Failed to update membership"))
            /\ UNCHANGED memberships
       ELSE \E d \in OneOf(MembershipsOfTenant(rec.user_id, ScopeName(rec.scope),
                                               rec.tenant_id)) :
              LET w == {Stamped([x EXCEPT !.role_id = rec.role_id,
                                          !.membership_id = "id0"]) : x \in d} IN
              /\ memberships' = (memberships \ d) \cup w
              /\ Step(p, [rec EXCEPT !.pc = "um_inv", !.written = w,
                                     !.dels = UserPermissionKeys(rec.user_id,
                                                                 rec.scope)])
    /\ UNCHANGED <<users, projects, roles, cache, dbUp,
                   cacheUp, now, nextId, ops, seeded>>
    /\ Committed

\* update_membership: update_one({user_id, project_id, tenant_id},
\* {$set: {role_id, updated_at}}).
UpdateMembership_Write(p) ==
    /\ proc[p].pc = "um_write"
    /\ LET rec == proc[p] IN
       IF ~dbUp
       THEN /\ Step(p, StoreError(rec, "Failed to update membership"))
            /\ UNCHANGED memberships
       ELSE \E d \in OneOf(MembershipsOfTenant(rec.user_id, ScopeName(rec.scope),
                                               rec.tenant_id)) :
              LET w == {[x EXCEPT !.role_id = rec.role_id,
                                  !.updated_at = now] : x \in d} IN
              /\ memberships' = (memberships \ d) \cup w
              /\ Step(p, [rec EXCEPT !.pc = "um_inv", !.written = w,
                                     !.dels = UserPermissionKeys(rec.user_id,
                                                                 rec.scope)])
    /\ UNCHANGED <<users, projects, roles, cache, dbUp,
                   cacheUp, now, nextId, ops, seeded>>
    /\ Committed

\* update_membership lines 442-443: the membership read back.
UpdateMembership_Get(p) ==
    /\ proc[p].pc = "um_get"
    /\ LET rec == proc[p] IN
       IF ~dbUp THEN Step(p, StoreError(rec, "Failed to get membership"))
       ELSE \E found \in FindOne(MembershipsOf(rec.user_id, ScopeName(rec.scope))) :
              IF found = {}
              THEN Step(p, Done(rec, Err("Membership not found after update")))
              ELSE Step(p, Done([rec EXCEPT !.membership = found],
                                Ok(CHOOSE m \in found : TRUE)))
    /\ UNCHANGED <<store, cache, dbUp, cacheUp, now, nextId, ops, seeded>>

(***************************************************************************)
(* revoke_role (services/rbac.rs 447-472)                                  *)
(***************************************************************************)
StartRevokeRole(p, user_id, project_id, tenant_id) ==
    /\ Begin(p, [IdleProc EXCEPT !.op = "revoke_role", !.pc = "rv_delete",
                                 !.user_id = user_id, !.scope = {project_id},
                                 !.tenant_id = tenant_id])
    /\ UNCHANGED <<store, cache, dbUp, cacheUp, now, nextId, seeded>>

\* delete_one({user_id, project_id, tenant_id}) and the deleted_count check.
RevokeRole_Delete(p) ==
    /\ proc[p].pc = "rv_delete"
    /\ LET rec == proc[p]
           matching == MembershipsOfTenant(rec.user_id, ScopeName(rec.scope),
                                           rec.tenant_id) IN
       IF ~dbUp
       THEN /\ Step(p, StoreError(rec, "Failed to revoke role"))
            /\ UNCHANGED memberships
       ELSE IF matching = {}
            THEN /\ Step(p, Done(rec, Err("Membership not found")))
                 /\ UNCHANGED memberships
            ELSE /\ \E d \in matching : memberships' = memberships \ {d}
                 /\ Step(p, [rec EXCEPT !.pc = "rv_inv",
                                        !.dels = UserPermissionKeys(rec.user_id,
                                                                    rec.scope)])
    /\ UNCHANGED <<users, projects, roles, cache, dbUp,
                   cacheUp, now, nextId, ops, seeded>>
    /\ Committed

(***************************************************************************)
(* initialize_system_roles (services/rbac.rs 533-599)                      *)
(***************************************************************************)
\* The first seeding call of a tenant to complete decides seeded[tenant].
FirstOutcome(tenant_id, rec) ==
    IF rec.pc = "done" /\ seeded[tenant_id] = ""
    THEN [seeded EXCEPT ![tenant_id] = rec.res.status]
    ELSE seeded

StartInitializeSystemRoles(p, tenant_id) ==
    /\ Begin(p, [IdleProc EXCEPT !.op = "initialize_system_roles",
                                 !.pc = "is_list", !.tenant_id = tenant_id,
                                 !.seen_seeded = seeded[tenant_id]])
    /\ UNCHANGED <<store, cache, dbUp, cacheUp, now, nextId, seeded>>

\* Mutant: the already-seeded test never finds a system role.
AlreadySeeded_Never(existing) == FALSE

\* Line 535: existing.iter().any(|r| r.is_system_role).
AlreadySeeded(existing) == \E r \in existing : r.is_system_role

\* Lines 534-538: get_tenant_roles and the already-seeded test.
InitializeSystemRoles_List(p) ==
    /\ proc[p].pc = "is_list"
    /\ LET rec == proc[p]
           existing == get_tenant_roles(rec.tenant_id)
           next == IF ~dbUp THEN StoreError(rec, "Failed to get roles")
                   ELSE IF AlreadySeeded(existing)
                        THEN Done(rec, Ok("unit"))
                        ELSE [rec EXCEPT !.pc = "is_insert", !.cnt = 0] IN
       /\ Step(p, next)
       /\ seeded' = FirstOutcome(rec.tenant_id, next)
    /\ UNCHANGED <<store, cache, dbUp, cacheUp, now, nextId, ops>>

\* Lines 589-595: one insert_one of the `for role in system_roles` loop.
InitializeSystemRoles_Insert(p) ==
    /\ proc[p].pc = "is_insert"
    /\ LET rec == proc[p]
           r == SystemRoles(rec.tenant_id)[rec.cnt + 1]
           doc == Stamped(RoleDoc(nextId, r.role_id, r.name, r.description,
                                  r.permissions, TRUE, rec.tenant_id))
           next == IF ~dbUp THEN StoreError(rec, "Failed to create system role")
                   ELSE IF rec.cnt + 1 = Len(SystemRoles(rec.tenant_id))
                        THEN Done([rec EXCEPT !.cnt = @ + 1], Ok("unit"))
                        ELSE [rec EXCEPT !.cnt = @ + 1] IN
       /\ IF dbUp
          THEN roles' = roles \cup {doc} /\ nextId' = nextId + 1
          ELSE UNCHANGED <<roles, nextId>>
       /\ Step(p, next)
       /\ seeded' = FirstOutcome(rec.tenant_id, next)
    /\ UNCHANGED <<users, projects, memberships, cache,
                   dbUp, cacheUp, now, ops>>
    /\ Committed

(***************************************************************************)
(* Collaborators: user directory, cache expiry, store availability         *)
(***************************************************************************)
\* UserService::update_user with a role (services/user.rs 156-190): the
\* users collection is written, no cache key is touched.
UpdateUser(user_id, role) ==
    /\ dbUp
    /\ user_id \in DOMAIN users
    /\ users[user_id].role # role
    /\ users' = [users EXCEPT ![user_id].role = role]
    /\ UNCHANGED <<projects, roles, memberships, cache, dbUp, cacheUp,
                   now, nextId, ops, seeded, proc>>
    /\ Committed

\* Redis starts refusing every call, and recovers.
CacheDown ==
    /\ cacheUp
    /\ cacheUp' = FALSE
    /\ UNCHANGED <<store, cache, dbUp, now, nextId, ops, seeded, proc>>

CacheUp ==
    /\ ~cacheUp
    /\ cacheUp' = TRUE
    /\ UNCHANGED <<store, cache, dbUp, now, nextId, ops, seeded, proc>>

\* An entry is overwritten with a string the service cannot decode.
Garble(key) ==
    /\ \/ /\ key \in DOMAIN permCache
          /\ permCache[key] # Garbled
          /\ permCache' = [permCache EXCEPT ![key] = Garbled]
          /\ UNCHANGED roleCache
       \/ /\ key \in DOMAIN roleCache
          /\ roleCache[key] # Garbled
          /\ roleCache' = [roleCache EXCEPT ![key] = Garbled]
          /\ UNCHANGED permCache
    /\ UNCHANGED <<store, expires, dbUp, cacheUp, now, nextId, ops, seeded, proc>>

\* Half a permissions lifetime passes; redis drops the entries whose
\* lifetime has ended.
TickLength == PERMISSION_CACHE_TTL \div 2

Live(c) == [k \in {j \in DOMAIN c : expires[j] > now + TickLength} |-> c[k]]

Tick ==
    /\ now < MaxTicks * TickLength
    /\ now' = now + TickLength
    /\ permCache' = Live(permCache)
    /\ roleCache' = Live(roleCache)
    /\ expires' = Live(expires)
    /\ UNCHANGED <<store, dbUp, cacheUp, nextId, ops, seeded, proc>>

\* A permissions entry reaches PERMISSION_CACHE_TTL and disappears.
ExpirePermissions(key) ==
    /\ key \in DOMAIN permCache
    /\ permCache' = CacheDel(permCache, key)
    /\ expires' = CacheDel(expires, key)
    /\ UNCHANGED <<store, roleCache, dbUp, cacheUp, now, nextId, ops, seeded, proc>>

\* A role entry reaches ROLE_CACHE_TTL and disappears.
ExpireRole(key) ==
    /\ key \in DOMAIN roleCache
    /\ roleCache' = CacheDel(roleCache, key)
    /\ expires' = CacheDel(expires, key)
    /\ UNCHANGED <<store, permCache, dbUp, cacheUp, now, nextId, ops, seeded, proc>>

\* The document store becomes unavailable / available again.
StoreDown ==
    /\ dbUp
    /\ dbUp' = FALSE
    /\ UNCHANGED <<store, cache, cacheUp, now, nextId, ops, seeded, proc>>

StoreUp ==
    /\ ~dbUp
    /\ dbUp' = TRUE
    /\ UNCHANGED <<store, cache, cacheUp, now, nextId, ops, seeded, proc>>

(***************************************************************************)
(* Initial states: two tenants; tenant t1 has users u1 and u3, project p1  *)
(* (owner u1) and its custom role "Analyst" (the document create_role      *)
(* stores for AnalystDto); tenant t2 has user u2 and project p2.  A        *)
(* specification chooses which tenants have been seeded with system roles   *)
(* and which memberships assign_role has already stored.                    *)
(***************************************************************************)
Tenants == {"t1", "t2"}

AnalystDto ==
    [name |-> {"Analyst"}, description |-> {"reports"},
     permissions |-> {<<"report:read", "chat:read">>}]

AnalystRole ==
    RoleDoc(1, Uuid(1), "Analyst", "reports", <<"report:read", "chat:read">>,
            FALSE, "t1")

\* A patch of update_role that replaces the permission list.
ReaderPatch ==
    [name |-> {}, description |-> {}, permissions |-> {<<"project:read">>}]

\* The documents a completed initialize_system_roles(tenant_id) has stored.
SeededRoles(tenant_id, first_id) ==
    {RoleDoc(first_id + i - 1, SystemRoles(tenant_id)[i].role_id,
             SystemRoles(tenant_id)[i].name, SystemRoles(tenant_id)[i].description,
             SystemRoles(tenant_id)[i].permissions, TRUE, tenant_id) :
        i \in DOMAIN SystemRoles(tenant_id)}

\* Memberships stored by assign_role: u1 holds Analyst on p1, u3 holds the
\* system role Viewer on p1.
HeldAnalyst == MembershipDoc(10, Uuid(10), "u1", "p1", Uuid(1), "t1")
HeldViewer == MembershipDoc(11, Uuid(11), "u3", "p1", "t1-viewer", "t1")

InitStoreWith(requests, seeded_tenants, ms) ==
    /\ users = [u \in {"u1", "u2", "u3"} |->
                  [role |-> "viewer", tenant_id |-> IF u = "u2" THEN "t2" ELSE "t1"]]
    /\ projects = [q \in {"p1", "p2"} |->
                     IF q = "p1" THEN [owner_id |-> "u1", tenant_id |-> "t1"]
                     ELSE [owner_id |-> "u2", tenant_id |-> "t2"]]
    /\ roles = {AnalystRole}
                  \cup UNION {SeededRoles(t, IF t = "t1" THEN 2 ELSE 6) :
                                t \in seeded_tenants}
    /\ memberships = ms
    /\ permCache = << >>
    /\ roleCache = << >>
    /\ dbUp = TRUE
    /\ nextId = 12
    /\ ops = requests
    /\ seeded = [t \in Tenants |-> IF t \in seeded_tenants THEN "ok" ELSE ""]
    /\ cacheUp = TRUE
    /\ now = 0
    /\ expires = << >>
    /\ lastWrite = 0

InitWith(requests, seeded_tenants, ms) ==
    /\ InitStoreWith(requests, seeded_tenants, ms)
    /\ proc = [p \in Procs |-> IdleProc]

Init == InitWith(MaxOps, {}, {})

(***************************************************************************)
(* The steps of each request kind                                          *)
(***************************************************************************)
ResolveSteps(p) ==
    \/ Resolve_CacheGet(p)
    \/ Resolve_GetUser(p)
    \/ Resolve_GetMembership(p)
    \/ Resolve_GetProject(p)
    \/ Resolve_CacheSet(p)

GetRoleSteps(p) ==
    \/ GetRole_Cache(p)
    \/ GetRole_Find(p)
    \/ GetRole_Set(p)

UpdateRoleSteps(p) ==
    \/ UpdateRole_Write(p)
    \/ UpdateRole_InvalidateRole(p)
    \/ UpdateRole_ListMembers(p)

DeleteRoleSteps(p) ==
    \/ DeleteRole_Count(p)
    \/ DeleteRole_Delete(p)
    \/ DeleteRole_Invalidate(p)

AssignRoleSteps(p) ==
    \/ AssignRole_GetProject(p)
    \/ AssignRole_GetUser(p)
    \/ AssignRole_GetMembership(p)
    \/ AssignRole_Insert(p)
    \/ UpdateMembership_Write(p)
    \/ UpdateMembership_Get(p)

SeedSteps(p) ==
    \/ InitializeSystemRoles_List(p)
    \/ InitializeSystemRoles_Insert(p)

\* Role ids a caller can name: the ids in use, and one that names nothing.
KnownRoleIds == {r.role_id : r \in roles} \cup {"id0"}

Returned(p, opnames) == proc[p].pc = "done" /\ proc[p].op \in opnames

(***************************************************************************)
(* SpecAdmin: resolutions for user u1 while u1's role flag changes and u1   *)
(* is given the Analyst role on project p1.                                *)
(***************************************************************************)
NextAdmin ==
    \/ \E p \in Procs :
         \/ \E scope \in {{}, {"p1"}, {"p9"}} :
              StartResolve(p, "resolve_permissions", "u1", scope, "", "")
         \/ StartAssignRole(p, "u1", "p1", Uuid(1), "t1")
         \/ ResolveSteps(p)
         \/ GetRoleSteps(p)
         \/ AssignRoleSteps(p)
         \/ Invalidate_Del(p)
    \/ \E role \in {"admin", "viewer"} : UpdateUser("u1", role)
    \/ \E key \in DOMAIN permCache : ExpirePermissions(key)

SpecAdmin == InitWith(FewOps, {}, {}) /\ [][NextAdmin]_vars

\* C1 (as stated): whenever resolve_permissions returns for a user whose
\* directory role flag is Admin (when the call was made and when it
\* returns), in any scope, the result has is_admin = TRUE and the entire
\* catalog, so has_permission holds for every catalog permission.
C1_AdminAlwaysFullCatalog ==
    \A p \in Procs :
        ( /\ Returned(p, {"resolve_permissions"})
          /\ IsOk(proc[p].res)
          /\ proc[p].flag_at_call = "admin"
          /\ users[proc[p].user_id].role = "admin" )
        => /\ Value(proc[p].res).is_admin
           /\ Value(proc[p].res).permissions = AllPermissionStrings
           /\ \A perm \in Permission : has_permission(Value(proc[p].res), perm)

\* C1 (amended): a resolve_permissions call that misses the permissions
\* cache and reads the role flag Admin from the user directory returns
\* is_admin = TRUE with exactly the catalog's strings, in every scope and
\* whatever memberships and project owners exist; has_permission then holds
\* for every catalog permission.
C1_AdminMissFullCatalog ==
    \A p \in Procs :
        ( /\ Returned(p, {"resolve_permissions"})
          /\ ~proc[p].hit
          /\ proc[p].flag = "admin" )
        => /\ IsOk(proc[p].res)
           /\ Value(proc[p].res).is_admin
           /\ Value(proc[p].res).permissions = AllPermissionStrings
           /\ Value(proc[p].res).permissions = {as_str(perm) : perm \in Permission}
           /\ \A perm \in Permission : has_permission(Value(proc[p].res), perm)

\* An admin who holds the Analyst role on a project they own resolves that
\* project on a cache miss.
C1_Witness ==
    \E p \in Procs :
        /\ Returned(p, {"resolve_permissions"})
        /\ ~proc[p].hit
        /\ proc[p].flag = "admin"
        /\ proc[p].scope = {"p1"}
        /\ \E m \in MembershipsOf("u1", "p1") : m.role_id = Uuid(1)
        /\ projects["p1"].owner_id = "u1"

(***************************************************************************)
(* Interleaving specifications: resolutions of (u1, p1) and (u3, p1)       *)
(* running alongside one kind of mutation each.                            *)
(***************************************************************************)
\* A mutation `op` on the resolution's user and project returned Ok before
\* the resolution of slot p was called.
CalledAfter(p, op) ==
    \E e \in proc[p].after_ok :
        e.op = op /\ e.user_id = proc[p].user_id /\ e.scope = proc[p].scope

\* An update_role of `role_id` returned Ok before the resolution was called.
CalledAfterUpdate(p, role_id) ==
    \E e \in proc[p].after_ok : e.op = "update_role" /\ e.role_id = role_id

NextAssign ==
    \E p \in Procs :
        \/ StartResolve(p, "resolve_permissions", "u1", {"p1"}, "", "")
        \/ StartAssignRole(p, "u1", "p1", Uuid(1), "t1")
        \/ ResolveSteps(p)
        \/ GetRoleSteps(p)
        \/ AssignRoleSteps(p)
        \/ Invalidate_Del(p)

SpecAssign == InitWith(MaxOps, {}, {}) /\ [][NextAssign]_vars

NextRevoke ==
    \E p \in Procs :
        \/ \E u \in {"u1", "u3"} :
             \/ StartResolve(p, "resolve_permissions", u, {"p1"}, "", "")
             \/ StartRevokeRole(p, u, "p1", "t1")
        \/ ResolveSteps(p)
        \/ GetRoleSteps(p)
        \/ RevokeRole_Delete(p)
        \/ Invalidate_Del(p)

SpecRevoke ==
    InitWith(MaxOps, {"t1"}, {HeldAnalyst, HeldViewer}) /\ [][NextRevoke]_vars

NextUpdate ==
    \E p \in Procs :
        \/ \E u \in {"u1", "u3"} :
             StartResolve(p, "resolve_permissions", u, {"p1"}, "", "")
        \/ StartUpdateRole(p, Uuid(1), ReaderPatch, "t1")
        \/ ResolveSteps(p)
        \/ GetRoleSteps(p)
        \/ UpdateRoleSteps(p)
        \/ Invalidate_Del(p)

SpecUpdate == InitWith(MaxOps, {}, {HeldAnalyst}) /\ [][NextUpdate]_vars

NextMembership ==
    \E p \in Procs :
        \/ StartAssignRole(p, "u1", "p1", Uuid(1), "t1")
        \/ StartRevokeRole(p, "u1", "p1", "t1")
        \/ GetRoleSteps(p)
        \/ AssignRoleSteps(p)
        \/ RevokeRole_Delete(p)
        \/ Invalidate_Del(p)

SpecMembership == InitWith(MaxOps, {}, {}) /\ [][NextMembership]_vars

\* C2: a resolve_permissions(U, P) called after assign_role(U, P, R) returned
\* Ok (its invalidation of the (U, P) entry included), for a non-admin U and
\* with the membership and the role R unchanged since, returns is_admin =
\* FALSE and exactly the stored permission set of R.
C2_AssignedSetExactly ==
    \A p \in Procs :
        ( /\ Returned(p, {"resolve_permissions"})
          /\ CalledAfter(p, "assign_role")
          /\ proc[p].flag_at_call # "admin" )
        => /\ IsOk(proc[p].res)
           /\ ~Value(proc[p].res).is_admin
           /\ MembershipsOf(proc[p].user_id, ScopeName(proc[p].scope)) # {}
           /\ \A m \in MembershipsOf(proc[p].user_id, ScopeName(proc[p].scope)) :
                \A r \in RolesById(m.role_id) :
                    Value(proc[p].res).permissions = ToSet(r.permissions)

\* C3: a resolve_permissions(U, P) called after revoke_role(U, P) returned Ok
\* (entry invalidated), for a non-admin U that has no membership on P,
\* returns is_admin = FALSE with the owner bundle when U owns P and the
\* empty set otherwise; the owner bundle holds project:update and
\* project:manage_members and not admin:access.
C3_RevokedFallsBack ==
    /\ {"project:update", "project:manage_members"} \subseteq get_owner_permissions
    /\ "admin:access" \notin get_owner_permissions
    /\ \A p \in Procs :
        ( /\ Returned(p, {"resolve_permissions"})
          /\ CalledAfter(p, "revoke_role")
          /\ proc[p].flag_at_call # "admin"
          /\ MembershipsOf(proc[p].user_id, ScopeName(proc[p].scope)) = {} )
        => /\ IsOk(proc[p].res)
           /\ ~Value(proc[p].res).is_admin
           /\ Value(proc[p].res).permissions =
                  IF projects[ScopeName(proc[p].scope)].owner_id = proc[p].user_id
                  THEN get_owner_permissions ELSE {}

\* C4: a resolve_permissions(U, P) called after update_role returned Ok for
\* the role R that non-admin U holds on P returns the permission set R has
\* in the store (S', not S), whatever resolutions and role lookups were in
\* flight while the update ran.
C4_UpdatedSetObserved ==
    \A p \in Procs :
        \A m \in MembershipsOf(proc[p].user_id, ScopeName(proc[p].scope)) :
            ( /\ Returned(p, {"resolve_permissions"})
              /\ CalledAfterUpdate(p, m.role_id)
              /\ proc[p].flag_at_call # "admin" )
            => /\ IsOk(proc[p].res)
               /\ \A r \in RolesById(m.role_id) :
                    /\ ToSet(r.permissions) = {"project:read"}
                    /\ Value(proc[p].res).permissions = ToSet(r.permissions)

\* C8: the membership store holds at most one ProjectMembership per
\* (user_id, project_id) pair.
C8_OneMembershipPerPair ==
    \A m1 \in memberships : \A m2 \in memberships :
        (m1.user_id = m2.user_id /\ m1.project_id = m2.project_id) => m1 = m2

(***************************************************************************)
(* SpecFailure: resolutions and permission checks for u1 (who holds        *)
(* Analyst on p1) and u3 (no membership) while the document store goes     *)
(* down and comes back.                                                    *)
(***************************************************************************)
NextFailure ==
    \/ \E p \in Procs :
         \/ \E op \in ResolverOps : \E u \in {"u1", "u3"} :
              StartResolve(p, op, u, {"p1"}, "ReportRead", "t1")
         \/ ResolveSteps(p)
         \/ GetRoleSteps(p)
    \/ StoreDown
    \/ StoreUp

SpecFailure == InitWith(FewOps, {}, {HeldAnalyst}) /\ [][NextFailure]_vars

\* The step of slot p writes the permissions cache.
WritesPermissions(p) ==
    /\ proc'[p] # proc[p]
    /\ Busy(p)
    /\ permCache' # permCache

\* C5: a resolution in which a store read (user, membership, role or
\* project) failed has returned an error carrying no ResolvedPermissions,
\* from resolve_permissions, check_permission and verify_project_access
\* alike; and the only step of a resolution that writes the permissions
\* cache is its last one, taken by a resolution in which no read failed.
C5_FailClosed ==
    /\ [](\A p \in Procs :
            (proc[p].op \in ResolverOps /\ proc[p].failed)
            => /\ proc[p].pc = "done"
               /\ proc[p].res.status = "error"
               /\ proc[p].res.val = {}
               /\ proc[p].res.msg =
                      CASE proc[p].op = "check_permission" -> "Permission check failed"
                        [] proc[p].op = "verify_project_access" -> "Access check failed"
                        [] OTHER -> proc[p].res.msg)
    /\ [][\A p \in Procs :
            (proc[p].op \in ResolverOps /\ WritesPermissions(p))
            => (proc'[p].pc = "done" /\ ~proc'[p].failed)]_vars

\* check_permission for u1 failed at the role lookup (the membership had
\* been read), and an earlier resolution has filled the permissions cache.
C5_Witness ==
    \E p \in Procs :
        /\ proc[p].op = "check_permission"
        /\ proc[p].failed
        /\ proc[p].membership # {}
        /\ proc[p].res.msg = "Permission check failed"

(***************************************************************************)
(* SpecRoles: update_role and delete_role calls by both tenants on the     *)
(* custom role Analyst and on the system role Viewer of tenant t1.         *)
(***************************************************************************)
RenamePatch ==
    [name |-> {"Renamed"}, description |-> {}, permissions |-> {}]

NextRoles ==
    \E p \in Procs :
        \/ \E role_id \in {Uuid(1), "t1-viewer"} : \E tenant_id \in Tenants :
             \/ \E dto \in {ReaderPatch, RenamePatch} :
                  StartUpdateRole(p, role_id, dto, tenant_id)
             \/ StartDeleteRole(p, role_id, tenant_id)
        \/ GetRoleSteps(p)
        \/ UpdateRoleSteps(p)
        \/ DeleteRoleSteps(p)

SpecRoles == InitWith(FewOps, {"t1"}, {}) /\ [][NextRoles]_vars

TargetsSystemRole(p) ==
    \E r \in roles : r.role_id = proc[p].role_id /\ r.is_system_role

\* C6: every update_role and delete_role call that targets a system role,
\* by either tenant and with any patch, returns an error ("Cannot modify
\* system role" / "Cannot delete system role"), and no step changes or
\* removes a stored role that has is_system_role = TRUE.
C6_SystemRolesImmutable ==
    /\ [](\A p \in Procs :
            (Returned(p, {"update_role", "delete_role"}) /\ TargetsSystemRole(p))
            => /\ proc[p].res.status = "error"
               /\ proc[p].res.msg =
                      IF proc[p].op = "update_role"
                      THEN "Cannot modify system role"
                      ELSE "Cannot delete system role")
    /\ [][\A r \in roles : r.is_system_role => r \in roles']_vars

\* update_role by the role's own tenant was refused on the system role
\* Viewer, after the custom role Analyst had been changed or deleted.
C6_Witness ==
    \E p \in Procs :
        /\ Returned(p, {"update_role"})
        /\ proc[p].role_id = "t1-viewer"
        /\ proc[p].tenant_id = "t1"
        /\ proc[p].res.status = "error"
        /\ AnalystRole \notin roles

(***************************************************************************)
(* SpecDelete: delete_role calls by both tenants on Analyst (held by u1)   *)
(* and on the system role Viewer (held by u3), with revoke_role taking     *)
(* u1's membership away and the store going down and coming back.          *)
(***************************************************************************)
NextDelete ==
    \/ \E p \in Procs :
         \/ \E role_id \in {Uuid(1), "t1-viewer"} : \E tenant_id \in Tenants :
              StartDeleteRole(p, role_id, tenant_id)
         \/ StartRevokeRole(p, "u1", "p1", "t1")
         \/ GetRoleSteps(p)
         \/ DeleteRoleSteps(p)
         \/ RevokeRole_Delete(p)
         \/ Invalidate_Del(p)
    \/ StoreDown
    \/ StoreUp

SpecDelete ==
    InitWith(FewOps, {"t1"}, {HeldAnalyst, HeldViewer}) /\ [][NextDelete]_vars

\* The role named by slot p is not a system role and is the caller's.
OwnCustomRole(p) ==
    \E r \in RolesById(proc[p].role_id) :
        ~r.is_system_role /\ r.tenant_id = proc[p].tenant_id

\* C7 (as stated): delete_role on a role that memberships reference fails
\* with the error that reports the number of referencing memberships.
C7_ReferencedDeleteReportsCount ==
    \A p \in Procs :
        ( /\ Returned(p, {"delete_role"})
          /\ get_memberships_by_role(proc[p].role_id) # {} )
        => /\ proc[p].res.status = "error"
           /\ proc[p].res.msg =
                  RoleInUse(Cardinality(get_memberships_by_role(proc[p].role_id)))

\* C7 (amended): delete_role on a role that memberships reference returns
\* an error; the error reports the number of referencing memberships when
\* the role is a custom role of the caller's tenant and no store call
\* failed; no step removes or changes a referenced role, and no step of
\* delete_role changes the memberships.
C7_ReferencedRoleKept ==
    /\ [](\A p \in Procs :
            ( /\ Returned(p, {"delete_role"})
              /\ get_memberships_by_role(proc[p].role_id) # {} )
            => /\ proc[p].res.status = "error"
               /\ (OwnCustomRole(p) /\ ~proc[p].failed)
                  => /\ proc[p].cnt =
                            Cardinality(get_memberships_by_role(proc[p].role_id))
                     /\ proc[p].res.msg = RoleInUse(proc[p].cnt)
                     /\ proc[p].res.msg =
                            "Cannot delete role: 1 users are assigned to it")
    /\ [][/\ \A r \in roles :
                get_memberships_by_role(r.role_id) # {} => r \in roles'
           /\ \A p \in Procs :
                (proc[p].op = "delete_role" /\ proc'[p] # proc[p] /\ Busy(p))
                => memberships' = memberships]_vars

\* delete_role by tenant t1 on Analyst, which u1 holds, was refused with the
\* count.
C7_Witness ==
    \E p \in Procs :
        /\ Returned(p, {"delete_role"})
        /\ proc[p].role_id = Uuid(1)
        /\ proc[p].tenant_id = "t1"
        /\ HeldAnalyst \in memberships
        /\ AnalystRole \in roles
        /\ proc[p].res.msg = "Cannot delete role: 1 users are assigned to it"

(***************************************************************************)
(* SpecSeed: initialize_system_roles for both tenants, one call per tenant *)
(* at a time (a call for a tenant is made after the previous one for that  *)
(* tenant returned), while the store goes down and comes back.             *)
(***************************************************************************)
SeedingInFlight(tenant_id) ==
    \E q \in Procs :
        /\ proc[q].op = "initialize_system_roles"
        /\ Busy(q)
        /\ proc[q].tenant_id = tenant_id

NextSeed ==
    \/ \E p \in Procs :
         \/ \E tenant_id \in Tenants :
              /\ ~SeedingInFlight(tenant_id)
              /\ StartInitializeSystemRoles(p, tenant_id)
         \/ SeedSteps(p)
    \/ StoreDown
    \/ StoreUp

SpecSeed == InitWith(FewOps, {}, {}) /\ [][NextSeed]_vars

SystemRolesOf(tenant_id) ==
    {r \in roles : r.tenant_id = tenant_id /\ r.is_system_role}

\* The step is taken by the seeding call of slot p.
SeedingStep(p) ==
    /\ proc[p].op = "initialize_system_roles"
    /\ Busy(p)
    /\ proc'[p] # proc[p]

\* C9: once the first initialize_system_roles(tenant) has returned Ok, the
\* tenant has exactly the 4 system roles with the identifiers derived from
\* its id, in every later state; a call made after that inserts nothing and
\* leaves the role store as it is; and no step of a seeding call touches a
\* role of another tenant.
C9_SeedingIdempotent ==
    /\ [](\A t \in Tenants :
            seeded[t] = "ok"
            => /\ Cardinality(SystemRolesOf(t)) = 4
               /\ {r.role_id : r \in SystemRolesOf(t)} =
                      {t \o "-admin", t \o "-owner", t \o "-member", t \o "-viewer"})
    /\ [][\A p \in Procs :
            SeedingStep(p)
            => /\ proc[p].seen_seeded = "ok" => (roles' = roles /\ nextId' = nextId)
               /\ \A t \in Tenants \ {proc[p].tenant_id} :
                    get_tenant_roles(t)' = get_tenant_roles(t)]_vars

\* A second initialize_system_roles("t2") has returned Ok after the first
\* one had returned Ok, and t1 still has only its custom role.
C9_Witness ==
    \E p \in Procs :
        /\ Returned(p, {"initialize_system_roles"})
        /\ proc[p].tenant_id = "t2"
        /\ proc[p].seen_seeded = "ok"
        /\ IsOk(proc[p].res)
        /\ Cardinality(SystemRolesOf("t2")) = 4
        /\ get_tenant_roles("t1") = {AnalystRole}

(***************************************************************************)
(* SpecTenant: user u2 of tenant t2 and project p1 of tenant t1: tenant    *)
(* t1 assigns u2 a role on p1, u2's role flag changes, and u2 resolves p1. *)
(***************************************************************************)
NextTenant ==
    \/ \E p \in Procs :
         \/ \E op \in {"resolve_permissions", "verify_project_access"} :
              StartResolve(p, op, "u2", {"p1"}, "", "t2")
         \/ StartAssignRole(p, "u2", "p1", Uuid(1), "t1")
         \/ ResolveSteps(p)
         \/ GetRoleSteps(p)
         \/ AssignRoleSteps(p)
         \/ Invalidate_Del(p)
    \/ \E role \in {"admin", "viewer"} : UpdateUser("u2", role)

SpecTenant == InitWith(FewOps, {}, {}) /\ [][NextTenant]_vars

\* C10: resolve_permissions(U, P) and verify_project_access(U, P, T) return
\* a grant (is_admin = TRUE or a non-empty permission set) only if project
\* P belongs to the tenant of user U and, for verify_project_access, to T.
C10_GrantsStayInTenant ==
    \A p \in Procs :
        ( /\ Returned(p, {"resolve_permissions", "verify_project_access"})
          /\ proc[p].scope # {}
          /\ IsOk(proc[p].res)
          /\ \/ Value(proc[p].res).is_admin
             \/ Value(proc[p].res).permissions # {} )
        => /\ ScopeName(proc[p].scope) \in DOMAIN projects
           /\ projects[ScopeName(proc[p].scope)].tenant_id =
                  users[proc[p].user_id].tenant_id
           /\ proc[p].op = "verify_project_access"
                  => projects[ScopeName(proc[p].scope)].tenant_id = proc[p].tenant_id

(***************************************************************************)
(* SpecStale: resolutions on p1 for u1, who holds the Analyst role, and    *)
(* for u3, who holds none, and updates of that role, while the clock       *)
(* advances between requests.                                              *)
(***************************************************************************)
\* Lines 46-69 of resolve_permissions evaluated on the collections alone
\* at the second resolved_at.
UncachedAt(user_id, scope, resolved_at) ==
    IF user_id \notin DOMAIN users THEN {}
    ELSE LET flag == users[user_id].role
             resolved(permissions, is_admin) ==
                 [user_id |-> user_id, project_id |-> scope,
                  permissions |-> permissions, is_admin |-> is_admin,
                  resolved_at |-> resolved_at]
             fallback ==
                 OwnerFallback(get_project(ScopeName(scope)), user_id)
         IN  IF flag = "admin"
             THEN {resolved(AllPermissionStrings, TRUE)}
             ELSE IF scope = {}
             THEN {resolved(get_global_permissions(flag), FALSE)}
             ELSE UNION
                 { IF found = {} THEN {resolved(fallback, FALSE)}
                   ELSE { resolved(IF r = {} THEN fallback
                                   ELSE ToSet((CHOOSE x \in r : TRUE).permissions),
                                   FALSE) :
                            r \in FindOne(RolesById(
                                     (CHOOSE m \in found : TRUE).role_id)) } :
                     found \in FindOne(MembershipsOf(user_id, ScopeName(scope))) }

\* Every ResolvedPermissions the algorithm can compute from the collections,
\* whatever second of the run it is stamped with.
Uncached(user_id, scope) ==
    UNION { UncachedAt(user_id, scope, k * TickLength) :
              k \in 0 .. (now \div TickLength) }

Quiet == \A p \in Procs : ~Busy(p)

NextStale ==
    \/ \E p \in Procs :
         \/ \E u \in {"u1", "u3"} :
              StartResolve(p, "resolve_permissions", u, {"p1"}, "", "")
         \/ StartUpdateRole(p, Uuid(1), ReaderPatch, "t1")
         \/ ResolveSteps(p)
         \/ GetRoleSteps(p)
         \/ UpdateRoleSteps(p)
         \/ Invalidate_Del(p)
    \/ (Quiet /\ Tick)

SpecStale == InitWith(MaxOps, {}, {HeldAnalyst}) /\ [][NextStale]_vars

\* C11: every ResolvedPermissions returned by resolve_permissions is what the
\* uncached algorithm computes from the store as it stood at some instant
\* at most PERMISSION_CACHE_TTL before the return; so a resolution returned
\* more than one TTL after the last change to the store returns what the
\* algorithm computes from the store as it is.
C11_BoundedStaleness ==
    \A p \in Procs :
        ( /\ Returned(p, {"resolve_permissions"})
          /\ IsOk(proc[p].res)
          /\ proc[p].returned_at - lastWrite > PERMISSION_CACHE_TTL )
        => Value(proc[p].res) \in Uncached(proc[p].user_id, proc[p].scope)

(***************************************************************************)
(* SpecOutage: requests run one at a time while redis and the store go     *)
(* down and come back between any two of their steps, and cached strings   *)
(* get overwritten with undecodable ones.                                  *)
(***************************************************************************)
NextOutage ==
    \/ \E p \in Procs :
         \/ /\ Quiet
            /\ \/ StartResolve(p, "resolve_permissions", "u1", {"p1"}, "", "")
               \/ StartUpdateRole(p, Uuid(1), ReaderPatch, "t1")
               \/ StartDeleteRole(p, Uuid(1), "t1")
               \/ StartAssignRole(p, "u1", "p1", Uuid(1), "t1")
               \/ StartRevokeRole(p, "u1", "p1", "t1")
         \/ ResolveSteps(p)
         \/ GetRoleSteps(p)
         \/ UpdateRoleSteps(p)
         \/ DeleteRoleSteps(p)
         \/ AssignRoleSteps(p)
         \/ RevokeRole_Delete(p)
         \/ Invalidate_Del(p)
    \/ CacheDown
    \/ CacheUp
    \/ StoreDown
    \/ StoreUp
    \/ \E key \in {PermKey("u1", {"p1"}), RoleKey(Uuid(1))} : Garble(key)

SpecOutage == InitWith(MaxOps, {}, {HeldAnalyst}) /\ [][NextOutage]_vars

\* The answers each operation gives from the state of the store.
StoreVerdicts ==
    {"User not found", "Role not found", "Role not found after update",
     "Project not found", "Membership not found",
     "Membership not found after update", RoleInUse(1), RoleInUse(2)}

\* What the request of slot p returns when the store alone decides, read
\* off the collections as the request left them.
StoreDecides(p) ==
    LET rec == proc[p]
        stored == RolesById(rec.role_id)
        held == MembershipsOf(rec.user_id, ScopeName(rec.scope)) IN
    CASE rec.op = "resolve_permissions" ->
            /\ IsOk(rec.res)
            /\ Value(rec.res) \in Uncached(rec.user_id, rec.scope)
      [] rec.op = "update_role" ->
            IF stored = {} THEN rec.res = Err("Role not found")
            ELSE /\ IsOk(rec.res)
                 /\ Value(rec.res) \in stored
                 /\ ToSet(Value(rec.res).permissions) = {"project:read"}
      [] rec.op = "delete_role" ->
            /\ IsOk(rec.res) => stored = {}
            /\ ~IsOk(rec.res) =>
                  IF stored = {} THEN rec.res = Err("Role not found")
                  ELSE rec.res = Err(RoleInUse(Cardinality(
                                         get_memberships_by_role(rec.role_id))))
      [] rec.op = "assign_role" ->
            IF stored = {} THEN rec.res = Err("Role not found")
            ELSE /\ IsOk(rec.res)
                 /\ Value(rec.res).role_id = rec.role_id
                 /\ \E m \in held :
                        /\ m.membership_id = Value(rec.res).membership_id
                        /\ m.role_id = rec.role_id
      [] rec.op = "revoke_role" ->
            /\ held = {}
            /\ IsOk(rec.res) \/ rec.res = Err("Membership not found")

\* C12: cache failure is transparent.  No operation returns an error that
\* is not a store failure or an answer decided by the store; and a
\* resolve_permissions, update_role, delete_role, assign_role or revoke_role
\* none of whose cache reads was answered (redis refused the call, or the
\* entry did not decode, or there was none) and none of whose store calls
\* failed returns what the store alone decides: for resolve_permissions,
\* exactly what the uncached algorithm computes from the store.
C12_CacheFailureTransparent ==
    \A p \in Procs :
        Returned(p, {"resolve_permissions", "update_role", "delete_role",
                     "assign_role", "revoke_role"})
        => /\ IsOk(proc[p].res) \/ proc[p].failed
                \/ proc[p].res.msg \in StoreVerdicts
           /\ (~proc[p].answered /\ ~proc[p].failed) => StoreDecides(p)

\* A resolution returned the store's value while redis was refusing calls
\* and held another value under the resolution's key.
C12_Witness ==
    \E p \in Procs :
        /\ Returned(p, {"resolve_permissions"})
        /\ IsOk(proc[p].res)
        /\ ~proc[p].answered
        /\ ~cacheUp
        /\ PermKey(proc[p].user_id, proc[p].scope) \in DOMAIN permCache
        /\ permCache[PermKey(proc[p].user_id, proc[p].scope)]
               \notin {Garbled, Value(proc[p].res)}
        /\ Value(proc[p].res) \in Uncached(proc[p].user_id, proc[p].scope)

(***************************************************************************)
(* SpecCatalog: create_role and update_role with permission lists that     *)
(* decode and lists that do not, on a custom role, a system role and an    *)
(* id that names no role, by either tenant.                                *)
(***************************************************************************)
\* Lists with one and with two entries outside the catalog.
BogusDto ==
    [name |-> {"Auditor"}, description |-> {"audits"},
     permissions |-> {<<"report:read", "report:audit">>}]

CasedPatch ==
    [name |-> {}, description |-> {},
     permissions |-> {<<"project:read", "Project:Read", "report:audit">>}]

CreateRoleSteps(p) ==
    \/ CreateRole_Insert(p)
    \/ CreateRole_Invalidate(p)

NextCatalog ==
    \E p \in Procs :
        \/ \E dto \in {AnalystDto, BogusDto} : StartCreateRole(p, dto, "t1")
        \/ \E role_id \in {Uuid(1), "t1-viewer", "id0"} : \E tenant_id \in Tenants :
             \E dto \in {ReaderPatch, CasedPatch} :
                StartUpdateRole(p, role_id, dto, tenant_id)
        \/ CreateRoleSteps(p)
        \/ GetRoleSteps(p)
        \/ UpdateRoleSteps(p)
        \/ Invalidate_Del(p)

SpecCatalog == InitWith(FewOps, {"t1"}, {HeldAnalyst}) /\ [][NextCatalog]_vars

\* The strings encode(p) of the catalog listing all().
Encodings == {as_str(all[i]) : i \in DOMAIN all}

\* The entries of the supplied permission list that do not decode.
Offending(p) ==
    LET perms == CHOOSE v \in proc[p].dto.permissions : TRUE IN
    IF proc[p].dto.permissions = {} THEN {}
    ELSE {i \in DOMAIN perms : perms[i] \notin Encodings}

FirstOffending(p) ==
    (CHOOSE v \in proc[p].dto.permissions : TRUE)[Min(Offending(p))]

\* update_role reaches its validation loop: the role exists, is a custom
\* role and belongs to the caller's tenant.
ReachesValidation(p) ==
    proc[p].op = "update_role"
    => /\ RolesById(proc[p].role_id) # {}
       /\ \A r \in RolesById(proc[p].role_id) :
             ~r.is_system_role /\ r.tenant_id = proc[p].tenant_id

StoredInCatalog ==
    \A r \in roles : \A i \in DOMAIN r.permissions : r.permissions[i] \in Encodings

NoStoreChangeByOffending ==
    \A p \in Procs :
        ( /\ proc'[p] # proc[p]
          /\ proc'[p].op \in {"create_role", "update_role"}
          /\ Offending(p)' # {} )
        => roles' = roles

\* C13 as stated: every stored role's permission strings are encodings of
\* catalog permissions, and a create_role or update_role whose list holds
\* an entry that does not decode fails naming the offending string and
\* leaves the role store unchanged.
C13_OffendingAlwaysNamed ==
    /\ [](StoredInCatalog
          /\ \A p \in Procs :
                (Returned(p, {"create_role", "update_role"}) /\ Offending(p) # {})
                => proc[p].res = Err("Invalid permission: " \o FirstOffending(p)))
    /\ [][NoStoreChangeByOffending]_vars

\* C13 (amended): every stored role's permission strings are encodings of
\* catalog permissions; a create_role or update_role whose list holds an
\* entry that does not decode fails and leaves the role store unchanged;
\* the error names the first offending string for create_role, and for
\* update_role when the role exists, is a custom role and belongs to the
\* caller's tenant (otherwise it is the error of that earlier check).
C13_StoredPermissionsInCatalog ==
    /\ [](StoredInCatalog
          /\ \A p \in Procs :
                (Returned(p, {"create_role", "update_role"}) /\ Offending(p) # {})
                => /\ proc[p].res.status = "error"
                   /\ ReachesValidation(p)
                      => proc[p].res = Err("Invalid permission: "
                                           \o FirstOffending(p)))
    /\ [][NoStoreChangeByOffending]_vars

\* Both operations have refused a list with an offending entry, naming the
\* first one, and the store holds catalog strings only.
C13_Witness ==
    /\ \E p \in Procs :
          /\ Returned(p, {"update_role"})
          /\ ReachesValidation(p)
          /\ proc[p].res = Err("Invalid permission: Project:Read")
    /\ \E p \in Procs :
          /\ Returned(p, {"create_role"})
          /\ proc[p].res = Err("Invalid permission: report:audit")
    /\ StoredInCatalog

(***************************************************************************)
(* SpecIntegrity: create_role, delete_role, assign_role and revoke_role    *)
(* interleaved on the Analyst role and the pair (u1, p1).                  *)
(***************************************************************************)
NextIntegrity ==
    \E p \in Procs :
        \/ StartCreateRole(p, AnalystDto, "t1")
        \/ StartDeleteRole(p, Uuid(1), "t1")
        \/ StartAssignRole(p, "u1", "p1", Uuid(1), "t1")
        \/ StartRevokeRole(p, "u1", "p1", "t1")
        \/ CreateRoleSteps(p)
        \/ GetRoleSteps(p)
        \/ DeleteRoleSteps(p)
        \/ AssignRoleSteps(p)
        \/ RevokeRole_Delete(p)
        \/ Invalidate_Del(p)

SpecIntegrity == InitWith(MaxOps, {}, {}) /\ [][NextIntegrity]_vars

\* C14: every ProjectMembership's role_id names a role present in the role
\* store, and a step removes a role only if no membership references it
\* when the role is removed, under any interleaving of create_role,
\* delete_role, assign_role and revoke_role.
C14_ReferentialIntegrity ==
    /\ [](\A m \in memberships : RolesById(m.role_id) # {})
    /\ [][\A r \in roles \ roles' : get_memberships_by_role(r.role_id) = {}]_vars

(***************************************************************************)
(* SpecIsolation: update_role and delete_role by either tenant on the      *)
(* custom role Analyst and the system role t1-viewer of tenant t1, while   *)
(* u3 holds t1-viewer on p1.                                               *)
(***************************************************************************)
SpecIsolation == InitWith(FewOps, {"t1"}, {HeldViewer}) /\ [][NextRoles]_vars

\* The request of slot p names a stored role of another tenant.
CrossTenant(p) ==
    /\ proc[p].op \in {"update_role", "delete_role"}
    /\ \E r \in RolesById(proc[p].role_id) : r.tenant_id # proc[p].tenant_id

\* No step of a cross-tenant update_role or delete_role changes a role or
\* a membership, and no step of any update_role or delete_role changes or
\* removes a role of a tenant other than the caller's.
ForeignRolesKept ==
    \A p \in Procs :
        ( proc'[p] # proc[p] /\ proc'[p].op \in {"update_role", "delete_role"} )
        => /\ CrossTenant(p)' => (roles' = roles /\ memberships' = memberships)
           /\ \A r \in roles : r.tenant_id # proc'[p].tenant_id => r \in roles'

NextTenancy ==
    \E p \in Procs :
        \/ \E user_id \in {"u1", "u9"} : \E project_id \in {"p1", "p2", "p9"} :
             \E role_id \in {Uuid(1), "t2-viewer", "id0"} : \E tenant_id \in Tenants :
                StartAssignRole(p, user_id, project_id, role_id, tenant_id)
        \/ StartDeleteRole(p, Uuid(1), "t1")
        \/ GetRoleSteps(p)
        \/ DeleteRoleSteps(p)
        \/ AssignRoleSteps(p)
        \/ Invalidate_Del(p)

SpecTenancy == InitWith(MaxOps, {"t2"}, {}) /\ [][NextTenancy]_vars

\* assign_role(U, P, R, T) was called when R was absent or of another
\* tenant, or P is absent or of another tenant, or U does not exist.
MustRefuse(p) ==
    LET rec == proc[p]
        project_id == ScopeName(rec.scope) IN
    \/ rec.role_at_call = {}
    \/ \E r \in rec.role_at_call : r.tenant_id # rec.tenant_id
    \/ project_id \notin DOMAIN projects
    \/ projects[project_id].tenant_id # rec.tenant_id
    \/ rec.user_id \notin DOMAIN users

\* C16: each ProjectMembership's tenant_id is the tenant_id of the role it
\* references and of the project it is on, and its user exists; an
\* assign_role(U, P, R, T) with R absent or of another tenant, P absent or
\* of another tenant, or U not existing fails, and none of its steps
\* creates or changes a membership or deletes a permissions entry.
C16_MembershipTenancy ==
    /\ [](/\ \A m \in memberships :
               /\ \A r \in RolesById(m.role_id) : r.tenant_id = m.tenant_id
               /\ m.project_id \in DOMAIN projects
               /\ projects[m.project_id].tenant_id = m.tenant_id
               /\ m.user_id \in DOMAIN users
           /\ \A p \in Procs :
                (Returned(p, {"assign_role"}) /\ MustRefuse(p))
                => proc[p].res.status = "error")
    /\ [][\A p \in Procs :
            ( /\ proc'[p] # proc[p]
              /\ proc'[p].op = "assign_role"
              /\ MustRefuse(p)' )
            => (memberships' = memberships /\ permCache' = permCache)]_vars

(***************************************************************************)
(* SpecProbe: get, update and delete by either tenant on the role ids of   *)
(* tenant t1 (custom and system) and on an id that names no role.          *)
(***************************************************************************)
NextProbe ==
    \E p \in Procs :
        \/ \E role_id \in {Uuid(1), "t1-viewer", "id0"} : \E tenant_id \in Tenants :
             \/ StartGetRole(p, role_id, tenant_id)
             \/ StartUpdateRole(p, role_id, RenamePatch, tenant_id)
             \/ StartDeleteRole(p, role_id, tenant_id)
        \/ GetRoleSteps(p)
        \/ UpdateRoleSteps(p)
        \/ DeleteRoleSteps(p)

SpecProbe == InitWith(FewOps, {"t1"}, {}) /\ [][NextProbe]_vars

\* The id the request of slot p names is outside the caller's tenant: it
\* names no role, or a role of another tenant.
Hidden(p) == \A r \in RolesById(proc[p].role_id) : r.tenant_id # proc[p].tenant_id

\* C17: for a caller of tenant T, the response (status and error message)
\* of get, update and delete on a role id is the same whether the id names
\* no role or a role, system or custom, of another tenant.
C17_ExistenceNotObservable ==
    \A p, q \in Procs :
        ( /\ Returned(p, {"get_role", "update_role", "delete_role"})
          /\ Returned(q, {proc[p].op})
          /\ proc[q].tenant_id = proc[p].tenant_id
          /\ Hidden(p) /\ Hidden(q) )
        => Respond(proc[p]) = Respond(proc[q])

(***************************************************************************)
(* SpecGate: verify_project_access and check_permission on p1 for u3 (who  *)
(* holds the Viewer role) and u2 (no membership, later an admin), while    *)
(* the document store goes down and comes back.                            *)
(***************************************************************************)
NextGate ==
    \/ \E p \in Procs :
         \/ \E op \in {"verify_project_access", "check_permission"} :
              \E u \in {"u2", "u3"} :
                 StartResolve(p, op, u, {"p1"}, "ReportRead", "t1")
         \/ ResolveSteps(p)
         \/ GetRoleSteps(p)
    \/ UpdateUser("u2", "admin")
    \/ StoreDown
    \/ StoreUp

SpecGate == InitWith(FewOps, {"t1"}, {HeldViewer}) /\ [][NextGate]_vars

\* What the helper of slot p requires of a successful resolution r.
Required(p, r) ==
    \/ r.is_admin
    \/ /\ proc[p].op = "verify_project_access"
       /\ "project:read" \in r.permissions
    \/ /\ proc[p].op = "check_permission"
       /\ as_str(proc[p].permission) \in r.permissions

\* C18: verify_project_access returns the ResolvedPermissions exactly when
\* resolve_permissions succeeded and its result has is_admin or contains
\* project:read, Forbidden when it succeeded with neither, and an internal
\* error, never a grant, when it failed; check_permission likewise with
\* the permission asked for.
C18_GateFollowsResolution ==
    \A p \in Procs :
        Returned(p, {"verify_project_access", "check_permission"})
        => LET resolution == proc[p].resolution IN
           /\ ~IsOk(resolution)
                => (proc[p].res.status = "error" /\ proc[p].res.val = {})
           /\ (IsOk(resolution) /\ Required(p, Value(resolution)))
                => proc[p].res = resolution
           /\ (IsOk(resolution) /\ ~Required(p, Value(resolution)))
                => (proc[p].res.status = "forbidden" /\ proc[p].res.val = {})

\* verify_project_access has granted one caller on project:read and
\* refused another whose resolution succeeded without it.
C18_Witness ==
    \E p, q \in Procs :
        /\ Returned(p, {"verify_project_access"})
        /\ IsOk(proc[p].res)
        /\ ~Value(proc[p].res).is_admin
        /\ "project:read" \in Value(proc[p].res).permissions
        /\ Returned(q, {"verify_project_access"})
        /\ IsOk(proc[q].resolution)
        /\ proc[q].res.status = "forbidden"

(***************************************************************************)
(* SpecChecks: has_permission, has_any_permission and has_all_permissions  *)
(* applied to every ResolvedPermissions r over three strings, admin or     *)
(* not, and every list ps of at most MaxLen catalog permissions.           *)
(***************************************************************************)
CheckStrings == {"project:read", "chat:read", "report:audit"}

CheckPermissions == {"ProjectRead", "ChatRead", "AdminAccess"}

CheckLists ==
    UNION {[1..n -> CheckPermissions] : n \in 0..MaxLen}

InitChecks ==
    /\ InitStoreWith(0, {}, {})
    /\ \E is_admin \in BOOLEAN : \E permissions \in SUBSET CheckStrings :
         \E ps \in CheckLists :
            proc = [p \in Procs |->
                      IF p = 1
                      THEN [IdleProc EXCEPT
                              !.op = "rbac_middleware", !.pc = "mw_check",
                              !.required = ps,
                              !.resolution =
                                  Ok([user_id |-> "u1", project_id |-> {},
                                      permissions |-> permissions,
                                      is_admin |-> is_admin,
                                      resolved_at |-> 0])]
                      ELSE IdleProc]

\* resolved.has_permission(permission) of check_permission.
Apply_has_permission(p, permission) ==
    /\ proc[p].pc = "mw_check"
    /\ Step(p, [proc[p] EXCEPT
                  !.op = "has_permission", !.pc = "done",
                  !.permission = permission,
                  !.res = Ok(has_permission(Value(proc[p].resolution),
                                            permission))])
    /\ UNCHANGED <<store, cache, dbUp, cacheUp, now, nextId, ops, seeded>>

\* RbacMiddlewareService::call lines 140-145 with require_all = false.
Apply_has_any_permission(p) ==
    /\ proc[p].pc = "mw_check"
    /\ Step(p, [proc[p] EXCEPT
                  !.op = "has_any_permission", !.pc = "done",
                  !.res = Ok(has_any_permission(Value(proc[p].resolution),
                                                proc[p].required))])
    /\ UNCHANGED <<store, cache, dbUp, cacheUp, now, nextId, ops, seeded>>

\* RbacMiddlewareService::call lines 140-145 with require_all = true.
Apply_has_all_permissions(p) ==
    /\ proc[p].pc = "mw_check"
    /\ Step(p, [proc[p] EXCEPT
                  !.op = "has_all_permissions", !.pc = "done",
                  !.res = Ok(has_all_permissions(Value(proc[p].resolution),
                                                 proc[p].required))])
    /\ UNCHANGED <<store, cache, dbUp, cacheUp, now, nextId, ops, seeded>>

NextChecks ==
    \E p \in Procs :
        \/ \E permission \in CheckPermissions : Apply_has_permission(p, permission)
        \/ Apply_has_any_permission(p)
        \/ Apply_has_all_permissions(p)

SpecChecks == InitChecks /\ [][NextChecks]_vars

\* The encodings of the permissions of the list given to the check.
RequiredStrings(p) == {as_str(proc[p].required[i]) : i \in DOMAIN proc[p].required}

\* C19: has_permission(p) = r.is_admin or encode(p) in r.permissions;
\* has_any(ps) = r.is_admin or some p of ps is held; has_all(ps) =
\* r.is_admin or every p of ps is held.  So with is_admin every check
\* succeeds whatever r.permissions contains, and for a non-admin has_all of
\* the empty list is true while has_any of the empty list is false.
C19_ChecksByDefinition ==
    \A p \in Procs :
        LET r == Value(proc[p].resolution)
            held == RequiredStrings(p) \cap r.permissions IN
        /\ Returned(p, {"has_permission"})
             => Value(proc[p].res) =
                   (r.is_admin \/ as_str(proc[p].permission) \in r.permissions)
        /\ Returned(p, {"has_any_permission"})
             => /\ Value(proc[p].res) = (r.is_admin \/ held # {})
                /\ (~r.is_admin /\ proc[p].required = <<>>)
                     => Value(proc[p].res) = FALSE
        /\ Returned(p, {"has_all_permissions"})
             => /\ Value(proc[p].res) = (r.is_admin \/ held = RequiredStrings(p))
                /\ (~r.is_admin /\ proc[p].required = <<>>)
                     => Value(proc[p].res) = TRUE
        /\ ( /\ Returned(p, {"has_permission", "has_any_permission",
                              "has_all_permissions"})
             /\ r.is_admin )
             => Value(proc[p].res) = TRUE

\* has_all_permissions succeeded for an admin whose permission set is empty
\* and who was asked for two permissions.
C19_Witness ==
    \E p \in Procs :
        /\ Returned(p, {"has_all_permissions"})
        /\ Value(proc[p].resolution).is_admin
        /\ Value(proc[p].resolution).permissions = {}
        /\ Len(proc[p].required) = 2
        /\ Value(proc[p].res) = TRUE

(***************************************************************************)
(* SpecSequential: the role and membership operations and resolutions run  *)
(* one at a time; redis answers every call, no user's role flag and no     *)
(* project's owner changes; the store may fail and recover between steps.  *)
(***************************************************************************)
NextSequential ==
    \/ StoreDown
    \/ StoreUp
    \/ \E p \in Procs :
        \/ /\ Quiet
           /\ \/ \E u \in {"u1", "u3"} : \E scope \in {{}, {"p1"}} :
                    StartResolve(p, "resolve_permissions", u, scope, "", "")
              \/ StartCreateRole(p, AnalystDto, "t1")
              \/ \E role_id \in {Uuid(1), "t1-viewer"} :
                    \/ StartUpdateRole(p, role_id, ReaderPatch, "t1")
                    \/ StartDeleteRole(p, role_id, "t1")
                    \/ \E u \in {"u1", "u3"} :
                         StartAssignRole(p, u, "p1", role_id, "t1")
              \/ \E u \in {"u1", "u3"} : StartRevokeRole(p, u, "p1", "t1")
              \/ StartInitializeSystemRoles(p, "t1")
        \/ ResolveSteps(p)
        \/ GetRoleSteps(p)
        \/ CreateRoleSteps(p)
        \/ UpdateRoleSteps(p)
        \/ DeleteRoleSteps(p)
        \/ AssignRoleSteps(p)
        \/ RevokeRole_Delete(p)
        \/ SeedSteps(p)
        \/ Invalidate_Del(p)

SpecSequential == InitWith(MaxOps, {}, {HeldAnalyst}) /\ [][NextSequential]_vars

\* The (user, scope) pairs and the role ids whose keys the requests of
\* SpecSequential can touch.
ResolutionKeys == (DOMAIN users) \X {{}, {"p1"}, {"p2"}}

\* Every cached resolution is one the uncached algorithm computes from the
\* store, and every cached role is the stored role.
CacheCoherent ==
    /\ \A k \in ResolutionKeys :
          PermKey(k[1], k[2]) \in DOMAIN permCache
          => permCache[PermKey(k[1], k[2])] \in Uncached(k[1], k[2])
    /\ \A key \in DOMAIN roleCache :
          \E r \in roles : key = RoleKey(r.role_id) /\ roleCache[key] = r

\* C20: when create_role, update_role, delete_role, assign_role, revoke_role,
\* initialize_system_roles and resolve_permissions run one at a time with a
\* working cache and fixed role flags and owners, every resolve_permissions
\* returns exactly what the uncached algorithm computes from the store as it
\* is, and between two operations no cache key holds a value other than the
\* one the store gives (each mutating operation has invalidated the keys
\* whose value it changed).
C20_SequentialTransparency ==
    /\ \A p \in Procs :
          (Returned(p, {"resolve_permissions"}) /\ IsOk(proc[p].res))
          => Value(proc[p].res) \in Uncached(proc[p].user_id, proc[p].scope)
    /\ Quiet => CacheCoherent

(***************************************************************************)
(* SpecPrecedence: resolutions for u1, owner of p1, on p1 while the        *)
(* Analyst role is assigned to u1 on p1, revoked and deleted.              *)
(***************************************************************************)
NextPrecedence ==
    \E p \in Procs :
        \/ StartResolve(p, "resolve_permissions", "u1", {"p1"}, "", "")
        \/ StartAssignRole(p, "u1", "p1", Uuid(1), "t1")
        \/ StartRevokeRole(p, "u1", "p1", "t1")
        \/ StartDeleteRole(p, Uuid(1), "t1")
        \/ ResolveSteps(p)
        \/ GetRoleSteps(p)
        \/ AssignRoleSteps(p)
        \/ RevokeRole_Delete(p)
        \/ DeleteRoleSteps(p)
        \/ Invalidate_Del(p)

SpecPrecedence == InitWith(MaxOps, {}, {}) /\ [][NextPrecedence]_vars

\* The resolution of slot p was computed (cache miss) for a non-admin user
\* in a project scope.
ComputedInProject(p) ==
    /\ Returned(p, {"resolve_permissions"})
    /\ IsOk(proc[p].res)
    /\ ~proc[p].hit
    /\ proc[p].flag # "admin"
    /\ proc[p].scope # {}

\* C21: for a non-admin user in project scope, when a membership for (U, P)
\* exists and its role exists the resolution is that role's permission set
\* verbatim, also when U owns P; the owner bundle is used only when no
\* membership exists.
C21_MembershipBeforeOwnership ==
    \A p \in Procs :
        ComputedInProject(p)
        => /\ (proc[p].membership # {} /\ proc[p].role.val # {})
                => Value(proc[p].res).permissions =
                       ToSet((CHOOSE r \in proc[p].role.val : TRUE).permissions)
           /\ ( /\ projects[ScopeName(proc[p].scope)].owner_id = proc[p].user_id
                /\ Value(proc[p].res).permissions = get_owner_permissions )
                => proc[p].membership = {}

(***************************************************************************)
(* SpecGlobal: global-scope resolutions for u1, who holds the Analyst role  *)
(* on p1 and owns p1, and for u3, who holds nothing, while u1's role flag   *)
(* takes every value.                                                      *)
(***************************************************************************)
NextGlobal ==
    \/ \E p \in Procs :
         \/ \E u \in {"u1", "u3"} :
              StartResolve(p, "resolve_permissions", u, {}, "", "")
         \/ Resolve_CacheGet(p)
         \/ Resolve_GetUser(p)
         \/ Resolve_CacheSet(p)
    \/ \E role \in UserRole : UpdateUser("u1", role)

SpecGlobal == InitWith(FewOps, {}, {HeldAnalyst}) /\ [][NextGlobal]_vars

\* The permissions no bundle of a non-admin flag contains.
AdminOnly == {"project:create", "user:manage_roles", "admin:access"}

\* C22: for a non-admin user, a global-scope resolution computed on a cache
\* miss is exactly the bundle of the role flag read from the user record
\* (owner, member or viewer bundle), whatever memberships and roles exist;
\* so a global-scope resolution with is_admin = false never contains
\* project:create, user:manage_roles or admin:access.
C22_GlobalScopeByFlag ==
    \A p \in Procs :
        ( /\ Returned(p, {"resolve_permissions"})
          /\ IsOk(proc[p].res)
          /\ proc[p].scope = {} )
        => LET r == Value(proc[p].res) IN
           /\ (~proc[p].hit /\ proc[p].flag # "admin")
                => /\ ~r.is_admin
                   /\ proc[p].flag = "project_owner"
                        => r.permissions = get_owner_permissions
                   /\ proc[p].flag = "project_member"
                        => r.permissions = get_member_permissions
                   /\ proc[p].flag = "viewer"
                        => r.permissions = get_viewer_permissions
                   /\ proc[p].flag \in {"project_owner", "project_member", "viewer"}
           /\ ~r.is_admin => r.permissions \cap AdminOnly = {}

\* A global-scope resolution computed for u1 with the project_owner flag
\* returned the owner bundle while u1 held the Analyst role on p1.
C22_Witness ==
    \E p \in Procs :
        /\ Returned(p, {"resolve_permissions"})
        /\ IsOk(proc[p].res)
        /\ proc[p].scope = {}
        /\ ~proc[p].hit
        /\ proc[p].flag = "project_owner"
        /\ Value(proc[p].res).permissions = get_owner_permissions
        /\ \E m \in memberships : m.user_id = "u1" /\ m.role_id = Uuid(1)

(***************************************************************************)
(* SpecOverlap: resolutions on p1 for u1, who holds the Analyst role, and  *)
(* for u3, who holds none, overlapping each other and an update_role of    *)
(* the Analyst role.                                                       *)
(***************************************************************************)
NextOverlap ==
    \E p \in Procs :
        \/ \E u \in {"u1", "u3"} :
             StartResolve(p, "resolve_permissions", u, {"p1"}, "", "")
        \/ StartUpdateRole(p, Uuid(1), ReaderPatch, "t1")
        \/ ResolveSteps(p)
        \/ GetRoleSteps(p)
        \/ UpdateRoleSteps(p)
        \/ Invalidate_Del(p)

SpecOverlap == InitWith(MaxOps, {}, {HeldAnalyst}) /\ [][NextOverlap]_vars

\* The resolution of slot p was computed on a cache miss and the store has
\* not changed since its first store read.
ComputedFromCurrentStore(p) ==
    /\ Returned(p, {"resolve_permissions"})
    /\ IsOk(proc[p].res)
    /\ ~proc[p].hit
    /\ proc[p].snapshot = {documents}

\* C23: two resolve_permissions calls for the same (user, scope) that both
\* miss the cache, with no store mutation between the first store read of
\* either and the last cache write, return the same permissions and
\* is_admin, and the cache entry left behind holds that value.
C23_ConcurrentMissesAgree ==
    \A p, q \in Procs :
        ( /\ p # q
          /\ ComputedFromCurrentStore(p)
          /\ ComputedFromCurrentStore(q)
          /\ proc[p].user_id = proc[q].user_id
          /\ proc[p].scope = proc[q].scope )
        => LET key == PermKey(proc[p].user_id, proc[p].scope) IN
           /\ Value(proc[p].res).permissions = Value(proc[q].res).permissions
           /\ Value(proc[p].res).is_admin = Value(proc[q].res).is_admin
           /\ key \in DOMAIN permCache => permCache[key] = Value(proc[p].res)

(***************************************************************************)
(* SpecRecovery: update_role of the Analyst role, during which the store   *)
(* and redis fail between any two steps (a delete refused, the membership  *)
(* listing failed) and after which they recover, resolutions for (u1, p1)  *)
(* arriving without end, and cache entries reaching the end of their       *)
(* lifetime.                                                               *)
(* FairRecovery adds what the runtime and redis guarantee: a request that  *)
(* can take a step takes it, and an entry that stays in redis expires.     *)
(***************************************************************************)
\* A resolve_permissions call arrives (resolutions are not counted in ops:
\* they keep arriving after the last mutation).
ArriveResolve(p, user_id, scope) ==
    /\ ~Busy(p)
    /\ \A q \in Procs : q < p => Busy(q)
    /\ proc' = [proc EXCEPT
                  ![p] = ResolveRequest("resolve_permissions", user_id, scope, "", "")]
    /\ UNCHANGED <<store, cache, dbUp, cacheUp, now, nextId, ops, seeded>>

\* (u1 holds the Analyst role on p1 throughout: the project is never read.)
RecoverySteps(p) ==
    \/ Resolve_CacheGet(p)
    \/ Resolve_GetUser(p)
    \/ Resolve_GetMembership(p)
    \/ Resolve_CacheSet(p)
    \/ GetRoleSteps(p)
    \/ UpdateRoleSteps(p)
    \/ Invalidate_Del(p)

RecoveryKeys == {PermKey("u1", {"p1"}), PermKey("u1", {}), RoleKey(Uuid(1))}

\* A mutation is in flight.
Mutating == \E p \in Procs : Busy(p) /\ proc[p].op = "update_role"

NextRecovery ==
    \/ \E p \in Procs :
         \/ ArriveResolve(p, "u1", {"p1"})
         \/ StartUpdateRole(p, Uuid(1), ReaderPatch, "t1")
         \/ RecoverySteps(p)
    \/ \E key \in RecoveryKeys : ExpirePermissions(key) \/ ExpireRole(key)
    \/ (Mutating /\ StoreDown)
    \/ StoreUp
    \/ (Mutating /\ CacheDown)
    \/ CacheUp

SpecRecovery == InitWith(MaxMutations, {}, {HeldAnalyst}) /\ [][NextRecovery]_vars

FairRecovery ==
    /\ SpecRecovery
    /\ \A p \in Procs : WF_vars(RecoverySteps(p))
    /\ \A key \in RecoveryKeys :
          WF_vars(ExpirePermissions(key)) /\ WF_vars(ExpireRole(key))

\* A step in which a resolve_permissions call returns Ok returns what the
\* uncached algorithm computes from the store.
ReturnsFromStore ==
    \A p \in Procs :
        ( /\ proc[p].pc # "done"
          /\ proc'[p].pc = "done"
          /\ proc'[p].op = "resolve_permissions"
          /\ IsOk(proc'[p].res) )
        => Value(proc'[p].res) \in Uncached(proc'[p].user_id, proc'[p].scope)

\* C24: when a mutation's store write has committed and one of its cache
\* deletes failed or was skipped, then once mutations have stopped,
\* eventually (the stale role and permissions entries having expired) every
\* resolve_permissions call that returns Ok returns the value computed from
\* the store as it is, from then on, and no cache entry differs from the
\* store's value.
C24_RecoveryAfterLostInvalidation ==
    /\ <>[][ReturnsFromStore]_vars
    /\ <>[]CacheCoherent

\* update_role has returned, the store holds the new permission list and
\* the permissions entry of (u1, p1) still holds the old set.
C24_Witness ==
    /\ \E p \in Procs : Returned(p, {"update_role"})
    /\ \E r \in RolesById(Uuid(1)) : ToSet(r.permissions) = {"project:read"}
    /\ PermKey("u1", {"p1"}) \in DOMAIN permCache
    /\ permCache[PermKey("u1", {"p1"})].permissions = {"report:read", "chat:read"}

(***************************************************************************)
(* SpecSeeding: initialize_system_roles calls for either tenant, also      *)
(* overlapping for the same tenant, with the store failing and recovering  *)
(* between any two steps.                                                  *)
(***************************************************************************)
NextSeeding ==
    \/ \E p \in Procs :
         \/ \E tenant_id \in Tenants : StartInitializeSystemRoles(p, tenant_id)
         \/ SeedSteps(p)
    \/ StoreDown
    \/ StoreUp

SpecSeeding == InitWith(MaxOps, {}, {}) /\ [][NextSeeding]_vars

\* C25: once every initialize_system_roles(tenant) call has returned and
\* one of them returned Ok, the tenant has exactly the four system roles
\* {tenant}-admin, {tenant}-owner, {tenant}-member and {tenant}-viewer, each
\* stored once, however the calls overlapped and whichever inserts failed.
C25_SeededExactlyOnce ==
    \A t \in Tenants :
        ( /\ ~SeedingInFlight(t)
          /\ \E p \in Procs :
                /\ Returned(p, {"initialize_system_roles"})
                /\ proc[p].tenant_id = t
                /\ IsOk(proc[p].res) )
        => /\ Cardinality(SystemRolesOf(t)) = 4
           /\ {r.role_id : r \in SystemRolesOf(t)} =
                  {t \o "-admin", t \o "-owner", t \o "-member", t \o "-viewer"}

(***************************************************************************)
(* SpecHit: resolutions on p1 for u1, who holds the Analyst role, and for  *)
(* u3, who holds none, while the clock advances between any two steps.     *)
(***************************************************************************)
NextHit ==
    \/ \E p \in Procs :
         \/ \E u \in {"u1", "u3"} :
              StartResolve(p, "resolve_permissions", u, {"p1"}, "", "")
         \/ ResolveSteps(p)
         \/ GetRoleSteps(p)
    \/ Tick

SpecHit == InitWith(MaxOps, {}, {HeldAnalyst}) /\ [][NextHit]_vars

\* The step of request p is a cache hit of resolve_permissions.
HitStep(p) ==
    /\ proc[p].op = "resolve_permissions"
    /\ proc[p].pc = "rp_cache"
    /\ proc'[p].pc = "done"

\* Every permissions entry in redis was written less than
\* PERMISSION_CACHE_TTL seconds ago.
WrittenWithinTTL ==
    \A key \in DOMAIN permCache :
        /\ key \in DOMAIN expires
        /\ now < expires[key]
        /\ expires[key] <= permCache[key].resolved_at + PERMISSION_CACHE_TTL

\* C26: a cache hit in resolve_permissions returns the stored
\* ResolvedPermissions as it is (is_admin and resolved_at included), reads
\* no user, membership, role or project, writes no cache entry and extends
\* no TTL; so every entry is gone PERMISSION_CACHE_TTL seconds after it was
\* written, however often it was read.
C26_HitChangesNothing ==
    /\ []WrittenWithinTTL
    /\ [][\A p \in Procs :
            HitStep(p) =>
                /\ proc'[p].res =
                       Ok(permCache[PermKey(proc[p].user_id, proc[p].scope)])
                /\ proc'[p].snapshot = {}
                /\ proc'[p].membership = {}
                /\ proc'[p].role = proc[p].role
                /\ UNCHANGED <<store, cache>>]_vars

\* A hit returned an entry stamped before the second of the read, after an
\* earlier hit on the same entry.
C26_Witness ==
    /\ ops = 0
    /\ \E p \in Procs :
          /\ Returned(p, {"resolve_permissions"})
          /\ proc[p].hit
          /\ IsOk(proc[p].res)
          /\ Value(proc[p].res).resolved_at < proc[p].returned_at
          /\ PermKey(proc[p].user_id, proc[p].scope) \in DOMAIN permCache

(***************************************************************************)
(* SpecRevocation: revoke_role for u1 (who holds Analyst on p1) and for u2 *)
(* (who holds nothing), under either tenant, overlapping with resolutions  *)
(* for u1 and u3 that fill both caches.  u3 holds Viewer on p1.            *)
(***************************************************************************)
NextRevocation ==
    \E p \in Procs :
        \/ \E u \in {"u1", "u2"} : \E t \in Tenants :
             StartRevokeRole(p, u, "p1", t)
        \/ RevokeRole_Delete(p)
        \/ Invalidate_Del(p)
        \/ StartResolve(p, "resolve_permissions", "u1", {"p1"}, "", "")
        \/ StartResolve(p, "resolve_permissions", "u1", {}, "", "")
        \/ StartResolve(p, "resolve_permissions", "u3", {"p1"}, "", "")
        \/ ResolveSteps(p)
        \/ GetRoleSteps(p)

SpecRevocation ==
    InitWith(MaxOps, {"t1"}, {HeldAnalyst, HeldViewer}) /\ [][NextRevocation]_vars

\* The cache c without the entry of key, every other entry as it was.
Without(c, key) == [k \in DOMAIN c \ {key} |-> c[k]]

\* The step of revoke_role request p: the delete_one with its
\* deleted_count test, then DEL permissions:U:P, then DEL
\* permissions:U:global and Ok(()).
RevokeFrame(p) ==
    LET U == proc[p].user_id
        P == ScopeName(proc[p].scope)
        matching == {m \in memberships :
                        /\ m.user_id = U
                        /\ m.project_id = P
                        /\ m.tenant_id = proc[p].tenant_id}
    IN  /\ UNCHANGED <<users, projects, roles, roleCache>>
        /\ proc[p].pc = "rv_delete" /\ matching = {}
              => /\ proc'[p].pc = "done"
                 /\ proc'[p].res = Err("Membership not found")
                 /\ UNCHANGED <<memberships, permCache, expires>>
        /\ proc[p].pc = "rv_delete" /\ matching # {}
              => /\ \E d \in matching : memberships' = memberships \ {d}
                 /\ proc'[p].pc = "rv_inv"
                 /\ UNCHANGED <<permCache, expires>>
        /\ proc[p].pc = "rv_inv"
              => /\ UNCHANGED memberships
                 /\ \/ /\ permCache' = Without(permCache, PermKey(U, {P}))
                       /\ expires' = Without(expires, PermKey(U, {P}))
                       /\ proc'[p].pc = "rv_inv"
                       /\ proc'[p].dels = <<PermKey(U, {})>>
                    \/ /\ proc[p].dels = <<PermKey(U, {})>>
                       /\ permCache' = Without(permCache, PermKey(U, {}))
                       /\ expires' = Without(expires, PermKey(U, {}))
                       /\ proc'[p].pc = "done"
                       /\ proc'[p].res = Ok("unit")

\* C27: revoke_role(U, P, T) deletes a membership of (U, P, T) when there is
\* one and then removes exactly the cache keys permissions:U:P and
\* permissions:U:global, every other membership, every role and every
\* other cache entry staying as they are; when there is none (absent, or
\* stored under another tenant) it fails with "Membership not found" and
\* changes neither the collections nor the cache.
C27_RevokeFrame ==
    [][\A p \in Procs :
          (proc[p].op = "revoke_role" /\ proc'[p] # proc[p]) => RevokeFrame(p)]_vars

\* revoke_role(u1, p1, t1) returned Ok: u1's membership is gone and u3's is
\* kept, u1's entries are gone while u3's entry and the cached Analyst role
\* are still there.
C27_Witness ==
    \E p \in Procs :
        /\ Returned(p, {"revoke_role"})
        /\ proc[p].res = Ok("unit")
        /\ memberships = {HeldViewer}
        /\ PermKey("u1", {"p1"}) \notin DOMAIN permCache
        /\ PermKey("u1", {}) \notin DOMAIN permCache
        /\ PermKey("u3", {"p1"}) \in DOMAIN permCache
        /\ RoleKey(Uuid(1)) \in DOMAIN roleCache

(***************************************************************************)
(* SpecUpsert: assign_role of the Viewer role on p1 to u1 (who holds       *)
(* Analyst there) and to u3 (who holds nothing), overlapping with each     *)
(* other and with resolutions for both users; the clock advances between   *)
(* requests.                                                               *)
(***************************************************************************)
NextUpsert ==
    \/ \E p \in Procs :
         \/ \E u \in {"u1", "u3"} : StartAssignRole(p, u, "p1", "t1-viewer", "t1")
         \/ \E u \in {"u1", "u3"} :
              StartResolve(p, "resolve_permissions", u, {"p1"}, "", "")
         \/ AssignRoleSteps(p)
         \/ Invalidate_Del(p)
         \/ ResolveSteps(p)
         \/ GetRoleSteps(p)
    \/ (Quiet /\ Tick)

SpecUpsert == InitWith(FewOps, {"t1"}, {HeldAnalyst}) /\ [][NextUpsert]_vars

\* The step of assign_role request p: what it does to the memberships and
\* to the permissions entries, and what update_membership hands back.
AssignFrame(p) ==
    LET U == proc[p].user_id
        P == ScopeName(proc[p].scope)
        R == proc[p].role_id
        pair == {m \in memberships : m.user_id = U /\ m.project_id = P}
    IN  /\ proc[p].pc \in {"ar_role", "ar_project", "ar_user", "ar_membership",
                            "um_get"}
              => UNCHANGED <<memberships, permCache>>
        /\ proc[p].pc = "ar_insert"
              => /\ \E m \in memberships' :
                       /\ memberships' = memberships \cup {m}
                       /\ <<m.user_id, m.project_id, m.role_id>> = <<U, P, R>>
                 /\ UNCHANGED permCache
        /\ proc[p].pc = "um_write"
              => /\ \E m \in pair :
                       memberships' =
                           (memberships \ {m})
                               \cup {[m EXCEPT !.role_id = R, !.updated_at = now]}
                 /\ Cardinality(memberships') = Cardinality(memberships)
                 /\ UNCHANGED permCache
        /\ proc[p].pc \in {"ar_inv", "um_inv"}
              => /\ UNCHANGED memberships
                 /\ \/ /\ permCache' = Without(permCache, PermKey(U, {P}))
                       /\ proc'[p].pc = proc[p].pc
                       /\ proc'[p].dels = <<PermKey(U, {})>>
                    \/ /\ proc[p].dels = <<PermKey(U, {})>>
                       /\ permCache' = Without(permCache, PermKey(U, {}))
                       /\ proc'[p].pc \in {"done", "um_get"}
        /\ proc[p].pc = "um_get" /\ IsOk(proc'[p].res)
              => /\ Value(proc'[p].res) \in pair
                 /\ (proc[p].written \subseteq memberships /\ Cardinality(pair) = 1)
                       => proc[p].written = {Value(proc'[p].res)}

\* C28: assign_role(U, P, R, T) on a pair that has a membership replaces
\* that membership's role_id and updated_at and nothing else of it
\* (membership_id, user, project, tenant and the number of memberships
\* stay), and returns the membership read back; inserting or updating, it
\* removes the keys permissions:U:P and permissions:U:global and no other
\* permissions entry.
C28_UpsertFrame ==
    [][\A p \in Procs :
          (proc[p].op = "assign_role" /\ proc'[p] # proc[p]) => AssignFrame(p)]_vars

\* assign_role(u1, p1, t1-viewer, t1) returned u1's membership with the new
\* role and a later updated_at, and u3's permissions entry is still cached.
C28_Witness ==
    \E p \in Procs :
        /\ Returned(p, {"assign_role"})
        /\ IsOk(proc[p].res)
        /\ proc[p].written = {Value(proc[p].res)}
        /\ Value(proc[p].res) =
               [HeldAnalyst EXCEPT !.role_id = "t1-viewer", !.updated_at = now]
        /\ now > 0
        /\ memberships = {Value(proc[p].res)}
        /\ PermKey("u3", {"p1"}) \in DOMAIN permCache
        /\ PermKey("u1", {"p1"}) \notin DOMAIN permCache

(***************************************************************************)
(* SpecPatch: update_role of the Analyst role with a patch of its          *)
(* permissions or of its name, overlapping with get_role requests for the  *)
(* same role; u1 holds the role on p1.                                     *)
(***************************************************************************)
NextPatch ==
    \E p \in Procs :
        \/ \E dto \in {ReaderPatch, RenamePatch} :
             StartUpdateRole(p, Uuid(1), dto, "t1")
        \/ StartGetRole(p, Uuid(1), "t1")
        \/ GetRoleSteps(p)
        \/ UpdateRoleSteps(p)
        \/ Invalidate_Del(p)

SpecPatch == InitWith(MaxOps, {}, {HeldAnalyst}) /\ [][NextPatch]_vars

\* The role r with the fields present in dto replaced and updated_at set.
Patched(r, dto) ==
    [id |-> r.id, role_id |-> r.role_id, tenant_id |-> r.tenant_id,
     is_system_role |-> r.is_system_role, created_at |-> r.created_at,
     name |-> IF dto.name = {} THEN r.name ELSE CHOOSE v \in dto.name : TRUE,
     description |-> IF dto.description = {} THEN r.description
                     ELSE CHOOSE v \in dto.description : TRUE,
     permissions |-> IF dto.permissions = {} THEN r.permissions
                     ELSE CHOOSE v \in dto.permissions : TRUE,
     updated_at |-> now]

\* The step of update_role request p: update_one changes the one role as
\* the patch says, no step changes another role or a membership, and the
\* Role handed back is the stored one.
UpdateFrame(p) ==
    /\ UNCHANGED memberships
    /\ IF proc[p].pc = "ur_write"
       THEN \E r \in roles :
              /\ r.role_id = proc[p].role_id
              /\ roles' = (roles \ {r}) \cup {Patched(r, proc[p].dto)}
       ELSE UNCHANGED roles
    /\ (proc'[p].pc = "done" /\ IsOk(proc'[p].res))
          => Value(proc'[p].res) \in roles

\* C29: a successful update_role(R, patch, T) changes the fields of R that
\* the patch holds and updated_at, and nothing else of R, no other role and
\* no membership; and it returns R as stored after the update, also when
\* get_role_by_id calls for R overlap with it.
C29_UpdateFrame ==
    [][\A p \in Procs :
          (proc[p].op = "update_role" /\ proc'[p] # proc[p]) => UpdateFrame(p)]_vars

(***************************************************************************)
(* SpecDangling: the Analyst role is assigned on p1 to u1 (owner of p1) or *)
(* to u3 while it is being deleted, and both users are resolved on p1.     *)
(***************************************************************************)
NextDangling ==
    \E p \in Procs :
        \/ \E u \in {"u1", "u3"} :
             \/ StartResolve(p, "resolve_permissions", u, {"p1"}, "", "")
             \/ StartAssignRole(p, u, "p1", Uuid(1), "t1")
        \/ StartDeleteRole(p, Uuid(1), "t1")
        \/ ResolveSteps(p)
        \/ GetRoleSteps(p)
        \/ AssignRoleSteps(p)
        \/ DeleteRoleSteps(p)
        \/ Invalidate_Del(p)

SpecDangling == InitWith(MaxOps, {}, {}) /\ [][NextDangling]_vars

\* Resolution p, for a non-admin user on a project, found a membership and
\* then no role under the membership's role_id.
RoleMissing(p) ==
    /\ proc[p].op = "resolve_permissions"
    /\ proc[p].flag # "admin"
    /\ proc[p].membership # {}
    /\ proc[p].role.ok
    /\ proc[p].role.val = {}
    /\ proc[p].pc \in {"gpp_project", "rp_set", "done"}

\* What such a resolution yields: the owner bundle for the owner of the
\* project, nothing for anybody else.
OwnerOrNothing(p) ==
    [user_id |-> proc[p].user_id, project_id |-> proc[p].scope,
     permissions |->
         IF projects[ScopeName(proc[p].scope)].owner_id = proc[p].user_id
         THEN get_owner_permissions
         ELSE {},
     is_admin |-> FALSE, resolved_at |-> now]

\* C30: when a membership of (U, P) references a role that the role lookup
\* does not find, resolve_permissions(U, P) for a non-admin U returns Ok
\* with the owner bundle if U owns P and with the empty set otherwise, not
\* with the permissions the role had, and caches that value under
\* permissions:U:P.
C30_MissingRoleFallsBack ==
    /\ [](\A p \in Procs :
            (RoleMissing(p) /\ proc[p].pc = "done") => IsOk(proc[p].res))
    /\ [][\A p \in Procs :
            (RoleMissing(p) /\ proc[p].pc = "rp_set" /\ proc'[p].pc = "done")
                => /\ proc'[p].res = Ok(OwnerOrNothing(p))
                   /\ PermKey(proc[p].user_id, proc[p].scope) \in DOMAIN permCache'
                   /\ permCache'[PermKey(proc[p].user_id, proc[p].scope)] =
                          OwnerOrNothing(p)]_vars

\* u3, who does not own p1, holds a membership whose role is gone: the
\* resolution returned the empty set and cached it.
C30_Witness ==
    \E p \in Procs :
        /\ RoleMissing(p)
        /\ proc[p].pc = "done"
        /\ proc[p].user_id = "u3"
        /\ \E m \in memberships : m.user_id = "u3" /\ RolesById(m.role_id) = {}
        /\ Value(proc[p].res).permissions = {}
        /\ permCache[PermKey("u3", {"p1"})] = Value(proc[p].res)

====
